---- MODULE Spec2Model ----
(***************************************************************************)
(* A model of info-teacher-radar: the fetch script (scripts/fetch.js:      *)
(* stripTracking, assignTabAndTags, computeScore, collect,                 *)
(* dedupeAndEnrich, main) and the bookmark store of the front end.         *)
(*                                                                         *)
(* Text.  A JavaScript string is modelled as a sequence of tokens; a token *)
(* stands for a fixed substring (a keyword-bearing word, a URL part, a     *)
(* single character such as "/" or " ").  String operations are computed   *)
(* on the token sequence: concatenation is \o, s.includes(k) looks for a   *)
(* token that contains k (Includes / IncludesLower), s.endsWith("/") and   *)
(* s.slice(0,-1) look at the last token (a one-character token), s.length  *)
(* sums the tokens' lengths.  The tokens are written in ASCII; the table   *)
(* at LowerHas gives the text each one stands for.                         *)
(*                                                                         *)
(* Time.  An instant is an integer count of 1/1000 day (the retention      *)
(* epsilon of the script, 0.001 day, is one unit).  A publishedAt value is *)
(* a record: an ISO string of an instant, an unparseable string, or an     *)
(* absent/empty value.                                                     *)
(***************************************************************************)
EXTENDS Integers, Sequences, FiniteSets, TLC

VARIABLES
    scriptRev,                          \* the revision of the script: 1 (lines 1-449), 2 (451-1143)
    urlIn, urlOut,                      \* a URL string; the results of stripTracking, applied once and again
    clsIn, clsOut,                      \* assignTabAndTags: arguments and result
    rawItems, mergedItems, items, aggPc,\* dedupeAndEnrich: argument, map after the loop, result
    pc, srcIdx, net, feed, collected, outcome, artifact, exitCode, \* main / collect
    store, lastToggle,                  \* localStorage[LS_KEY] and the last toggleBookmark call
    allItems, filtered, activeTab, activeTag,  \* the globals of the front end
    searchInput, daysSelect, sortSelect, tagRow, \* its inputs and the tags it offers
    clock, renderedAt                   \* new Date() in the browser; what the last renderTags and applyFilters read

vars == <<scriptRev, urlIn, urlOut, clsIn, clsOut, rawItems, mergedItems, items, aggPc,
          pc, srcIdx, net, feed, collected, outcome, artifact, exitCode, store, lastToggle,
          allItems, filtered, activeTab, activeTag, searchInput, daysSelect, sortSelect,
          tagRow, clock, renderedAt>>

urlVars == <<urlIn, urlOut>>
clsVars == <<clsIn, clsOut>>
aggVars == <<rawItems, mergedItems, items, aggPc>>
runVars == <<pc, srcIdx, net, feed, collected, outcome, artifact, exitCode>>
bmVars  == <<store, lastToggle>>
viewVars == <<allItems, filtered, activeTab, activeTag, searchInput, daysSelect, sortSelect,
              tagRow, clock, renderedAt>>

-----------------------------------------------------------------------------
(* Sequences *)

Last(s) == s[Len(s)]

Front(s) == SubSeq(s, 1, Len(s) - 1)

Range(s) == { s[i] : i \in 1..Len(s) }

Min(a, b) == IF a <= b THEN a ELSE b

Max(a, b) == IF a >= b THEN a ELSE b

\* All sequences over S of length at most n.
SeqUpTo(S, n) == UNION { [1..k -> S] : k \in 0..n }

RECURSIVE Concat(_)
\* The concatenation of a sequence of sequences.
Concat(ss) == IF ss = <<>> THEN <<>> ELSE Head(ss) \o Concat(Tail(ss))

RECURSIVE SelectSeqBy(_, _)
\* Array.prototype.filter with the predicate given as the set of kept values.
SelectSeqBy(s, keep) ==
    IF s = <<>> THEN <<>>
    ELSE IF Head(s) \in keep THEN <<Head(s)>> \o SelectSeqBy(Tail(s), keep)
         ELSE SelectSeqBy(Tail(s), keep)

\* Does the token sequence s hold the token sequence p as a contiguous part?
HasSubSeq(s, p) ==
    \E i \in 1..(Len(s) - Len(p) + 1) : SubSeq(s, i, i + Len(p) - 1) = p

-----------------------------------------------------------------------------
(* URLs: fetch.js stripTracking, lines 43-61 (same text at lines 494-522).  *)
(* A URL string is a token sequence: an origin token ("https://host"), then *)
(* the path as "/" and segment tokens, then "?" and the query pairs joined  *)
(* by "&", then "#" and the fragment.  new URL(s) throws on a string that   *)
(* does not start with an origin (a relative or empty string).              *)

Origins == { "https://example.com", "https://www.mext.go.jp", "https://www.itmedia.co.jp",
             "https://ict-enews.net", "https://news.google.com" }

\* The name of a query pair.
ParamKey(tok) ==
    CASE tok = "utm_source=x" -> "utm_source"
      [] tok = "utm_medium=x" -> "utm_medium"
      [] tok = "fbclid=x"     -> "fbclid"
      [] tok = "gclid=x"      -> "gclid"
      [] tok = "id=1"         -> "id"
      [] tok = "p=2"          -> "p"
      [] OTHER                -> tok

\* const drop = [...]
drop == { "utm_source", "utm_medium", "utm_campaign", "utm_term", "utm_content",
          "fbclid", "gclid", "yclid", "igshid" }

\* new URL(url) succeeds.
Parses(url) == url # <<>> /\ Head(url) \in Origins

\* The least index i >= from with url[i] \in marks, Len(url) + 1 when there is none.
IndexFrom(url, from, marks) ==
    LET hits == { i \in from..Len(url) : url[i] \in marks }
    IN  IF hits = {} THEN Len(url) + 1
        ELSE CHOOSE i \in hits : \A j \in hits : i <= j

\* u.pathname: the path of a URL with an origin is never empty.
Pathname(url) ==
    LET e == IndexFrom(url, 2, {"?", "#"})
        p == SubSeq(url, 2, e - 1)
    IN  IF p = <<>> THEN <<"/">> ELSE p

\* u.searchParams: the pairs of the query, in order (empty pieces are no pair).
SearchParams(url) ==
    LET q == IndexFrom(url, 2, {"?", "#"})
        h == IndexFrom(url, 2, {"#"})
    IN  IF q <= Len(url) /\ url[q] = "?"
        THEN SelectSeq(SubSeq(url, q + 1, h - 1), LAMBDA tok : tok # "&")
        ELSE <<>>

\* "#" and the fragment, <<>> when the URL has no "#".
HashPart(url) ==
    LET h == IndexFrom(url, 2, {"#"})
    IN  IF h <= Len(url) THEN SubSeq(url, h, Len(url)) ELSE <<>>

RECURSIVE JoinParams(_)
\* params.toString(): the pairs joined by "&".
JoinParams(ps) ==
    IF ps = <<>> THEN <<>>
    ELSE IF Len(ps) = 1 THEN ps
    ELSE <<Head(ps), "&">> \o JoinParams(Tail(ps))

\* u.toString() after params.delete(k) for every k of drop and the assignment to u.search.
Href(url) ==
    LET kept   == SelectSeq(SearchParams(url), LAMBDA tok : ParamKey(tok) \notin drop)
        search == IF kept # <<>> THEN <<"?">> \o JoinParams(kept) ELSE <<>>
    IN  <<Head(url)>> \o Pathname(url) \o search \o HashPart(url)

stripTracking(url) ==
    IF Parses(url)
    THEN LET out == Href(url)
         IN  IF Last(out) = "/" /\ Pathname(url) # <<"/">> THEN Front(out) ELSE out
    ELSE url                                   \* catch { return url; }

-----------------------------------------------------------------------------
(* Text: the tokens of the model, with the length of each and the patterns *)
(* of the script that each contains.                                        *)

(* The patterns, as named in this module, and the text of each in the script:
   tsuchi = 通知; jimurenraku = 事務連絡; shingikai = 審議会; kaigi = 会議; 
   shiryo = 資料; jugyo = 授業; kyoiku = 教育; gakko = 学校; komu = 校務; 
   guideline = ガイドライン; kenshu = 研修; chosakuken = 著作権; kojinjoho = 個人情報; 
   jirei = 事例; katsuyo = 活用; shishin = 指針; shinkino = 新機能; 
   update = アップデート; shinmodel = 新モデル; model = モデル; tool = ツール; 
   service = サービス; app = アプリ; security = セキュリティ; zeijakusei = 脆弱性; 
   fuseiaccess = 不正アクセス; johoroei = 情報漏えい; ransom = ランサム; 
   phishing = フィッシング; gyomu = 業務; koritsu = 効率; governance = ガバナンス; 
   hibochusho = 誹謗中傷; enjo = 炎上; privacy = プライバシー; ho = 法; kisei = 規制; 
   kyotsutest = 共通テスト; daigakunyugakukyotsutest = 大学入学共通テスト; 
   joho_r1 = 情報ⅰ (U+2170); kyotsu = 共通; komudx = 校務dx; kyoikuict = 教育ict; 
   hitoriichidai = 一人一台; tanmatsu = 端末; togogatakomu = 統合型校務; 
   network = ネットワーク; kaisen = 回線; kyoikuiinkai = 教育委員会; jichitai = 自治体; 
   joho_i = 情報i; joho_sp_R1 = 情報 Ⅰ (U+2160); johoka = 情報科; 
   koko_sp_joho = 高校 情報; programming = プログラミング; algorithm = アルゴリズム; 
   datakatsuyo = データ活用; tokei = 統計; bunseki = 分析; kashika = 可視化; 
   johodesign = 情報デザイン; presen = プレゼン; media = メディア; tankyu = 探究; 
   hyoka = 評価; rubric = ルーブリック; seiseiai = 生成ai; aitool = aiツール; 
   agent = エージェント; shigotojutsu = 仕事術; workflow = ワークフロー; 
   monbukagakusho = 文部科学省; kyozai = 教材; shidoan = 指導案; jissen = 実践; 
   worksheet = ワークシート; ENTERPRISE = エンタープライズ; ICTkyoikunews = ICT教育ニュース; 
   The pattern joho_sp_R1 holds the capital numeral U+2160 and is looked for in
   lowercased text, where toLowerCase() has turned U+2160 into U+2170: no text
   contains it. *)

\* The length (String.prototype.length) of the text a token stands for.
TokLen(tok) ==
    CASE tok = " "                          -> 1   \* (space)
      [] tok = "GIGA-school"                -> 8   \* GIGAスクール
      [] tok = "tanmatsu"                   -> 2   \* 端末
      [] tok = "koshin"                     -> 2   \* 更新
      [] tok = "he"                         -> 1   \* へ
      [] tok = "kyotsu-test"                -> 5   \* 共通テスト
      [] tok = "joho-I"                     -> 3   \* 情報I
      [] tok = "joho-R1"                    -> 3   \* 情報Ⅰ
      [] tok = "ICT"                        -> 3   \* ICT
      [] tok = "komu-DX"                    -> 4   \* 校務DX
      [] tok = "seisei-AI"                  -> 4   \* 生成AI
      [] tok = "ChatGPT"                    -> 7   \* ChatGPT
      [] tok = "LLM"                        -> 3   \* LLM
      [] tok = "jugyo"                      -> 2   \* 授業
      [] tok = "gakko"                      -> 2   \* 学校
      [] tok = "kyoiku"                     -> 2   \* 教育
      [] tok = "shingikai"                  -> 3   \* 審議会
      [] tok = "tsuchi"                     -> 2   \* 通知
      [] tok = "shin-kino"                  -> 3   \* 新機能
      [] tok = "katsuyo"                    -> 2   \* 活用
      [] tok = "programming"                -> 7   \* プログラミング
      [] tok = "koko"                       -> 2   \* 高校
      [] tok = "hyoka"                      -> 2   \* 評価
      [] tok = "security"                   -> 6   \* セキュリティ
      [] tok = "guideline"                  -> 6   \* ガイドライン
      [] tok = "happyo"                     -> 2   \* 発表
      [] tok = "ITmedia"                    -> 7   \* ITmedia
      [] tok = "AI+"                        -> 3   \* AI+
      [] tok = "NEWS"                       -> 4   \* NEWS
      [] tok = "ENTERPRISE"                 -> 8   \* エンタープライズ
      [] tok = "monbukagakusho"             -> 5   \* 文部科学省
      [] tok = "ICT-kyoiku-news"            -> 9   \* ICT教育ニュース
      [] tok = "Google News:"               -> 12  \* Google News:
      [] tok = "dash"                       -> 1   \* —
      [] tok = "https://example.com"        -> 19  \* https://example.com
      [] tok = "https://www.mext.go.jp"     -> 22  \* https://www.mext.go.jp
      [] tok = "https://www.itmedia.co.jp"  -> 25  \* https://www.itmedia.co.jp
      [] tok = "https://ict-enews.net"      -> 21  \* https://ict-enews.net
      [] tok = "https://news.google.com"    -> 23  \* https://news.google.com
      [] tok = "/"                          -> 1   \* /
      [] tok = "p1"                         -> 2   \* p1
      [] tok = "p2"                         -> 2   \* p2
      [] tok = "p3"                         -> 2   \* p3
      [] tok = "p4"                         -> 2   \* p4
      [] tok = "news"                       -> 4   \* news
      [] tok = "aiplus"                     -> 6   \* aiplus
      [] tok = "enterprise"                 -> 10  \* enterprise
      [] tok = "?"                          -> 1   \* ?
      [] tok = "&"                          -> 1   \* &
      [] tok = "#"                          -> 1   \* #
      [] tok = "f1"                         -> 2   \* f1
      [] tok = "utm_source=x"               -> 12  \* utm_source=x
      [] tok = "utm_medium=x"               -> 12  \* utm_medium=x
      [] tok = "fbclid=x"                   -> 8   \* fbclid=x
      [] tok = "gclid=x"                    -> 7   \* gclid=x
      [] tok = "id=1"                       -> 4   \* id=1
      [] tok = "p=2"                        -> 3   \* p=2
      [] tok = "garbage"                    -> 7   \* garbage
      [] OTHER -> 1

\* The patterns of the script (lowercase, named in ASCII) that the lowercased text of a
\* token contains.
LowerHas(tok) ==
    CASE tok = "GIGA-school"                -> {"giga"}
      [] tok = "tanmatsu"                   -> {"tanmatsu"}
      [] tok = "kyotsu-test"                -> {"kyotsu", "kyotsutest"}
      [] tok = "joho-I"                     -> {"joho_i"}
      [] tok = "joho-R1"                    -> {"joho_r1"}
      [] tok = "ICT"                        -> {"ict"}
      [] tok = "komu-DX"                    -> {"dx", "komu", "komudx"}
      [] tok = "seisei-AI"                  -> {"seiseiai"}
      [] tok = "ChatGPT"                    -> {"chatgpt"}
      [] tok = "LLM"                        -> {"llm"}
      [] tok = "jugyo"                      -> {"jugyo"}
      [] tok = "gakko"                      -> {"gakko"}
      [] tok = "kyoiku"                     -> {"kyoiku"}
      [] tok = "shingikai"                  -> {"shingikai"}
      [] tok = "tsuchi"                     -> {"tsuchi"}
      [] tok = "shin-kino"                  -> {"shinkino"}
      [] tok = "katsuyo"                    -> {"katsuyo"}
      [] tok = "programming"                -> {"programming"}
      [] tok = "hyoka"                      -> {"hyoka"}
      [] tok = "security"                   -> {"security"}
      [] tok = "guideline"                  -> {"guideline"}
      [] tok = "ITmedia"                    -> {"itmedia"}
      [] tok = "monbukagakusho"             -> {"monbukagakusho"}
      [] tok = "ICT-kyoiku-news"            -> {"ict", "kyoiku"}
      [] tok = "https://www.itmedia.co.jp"  -> {"itmedia"}
      [] tok = "https://ict-enews.net"      -> {"ict"}
      [] OTHER -> {}

\* The case-sensitive patterns of the script that the text of a token contains.
RawHas(tok) ==
    CASE tok = "AI+"                        -> {"AI+"}
      [] tok = "NEWS"                       -> {"NEWS"}
      [] tok = "ENTERPRISE"                 -> {"ENTERPRISE"}
      [] tok = "ICT-kyoiku-news"            -> {"ICTkyoikunews"}
      [] tok = "https://www.mext.go.jp"     -> {"mext.go.jp"}
      [] tok = "https://www.itmedia.co.jp"  -> {"itmedia.co.jp"}
      [] OTHER -> {}

\* The windows of two or three adjacent tokens whose lowercased concatenation contains a
\* pattern across a token boundary.
LowerSpans(k) ==
    CASE k = "koko_sp_joho"   -> {<<"koko", " ", "joho-I">>, <<"koko", " ", "joho-R1">>}
      [] k = "kyoikuict"      -> {<<"kyoiku", "ICT">>, <<"kyoiku", "ICT-kyoiku-news">>}
      [] OTHER -> {}

\* The same for the case-sensitive patterns.
RawSpans(k) ==
    CASE k = "/aiplus/"       -> {<<"/", "aiplus", "/">>}
      [] k = "/enterprise/"   -> {<<"/", "enterprise", "/">>}
      [] k = "/news/"         -> {<<"/", "news", "/">>}
      [] OTHER -> {}


\* s.includes(k) for a case-sensitive pattern k.
Includes(s, k) ==
    \/ \E i \in 1..Len(s) : k \in RawHas(s[i])
    \/ \E p \in RawSpans(k) : HasSubSeq(s, p)

\* s.toLowerCase().includes(k) for a lowercase pattern k.
IncludesLower(s, k) ==
    \/ \E i \in 1..Len(s) : k \in LowerHas(s[i])
    \/ \E p \in LowerSpans(k) : HasSubSeq(s, p)

\* s.length
StrLen(s) == LET RECURSIVE Sum(_)
                 Sum(r) == IF r = <<>> THEN 0 ELSE TokLen(Head(r)) + Sum(Tail(r))
             IN  Sum(s)

RECURSIVE TrimStart(_)
TrimStart(s) == IF s # <<>> /\ Head(s) = " " THEN TrimStart(Tail(s)) ELSE s

RECURSIVE TrimEnd(_)
TrimEnd(s) == IF s # <<>> /\ Last(s) = " " THEN TrimEnd(Front(s)) ELSE s

\* s.trim()
Trim(s) == TrimEnd(TrimStart(s))

RECURSIVE Dedup(_)
\* Array.from(new Set(a)): the first occurrence of every element, in order.
Dedup(a) ==
    IF a = <<>> THEN <<>>
    ELSE LET f == Dedup(Front(a))
         IN  IF Last(a) \in Range(f) THEN f ELSE Append(f, Last(a))

-----------------------------------------------------------------------------
(* The classifier: fetch.js assignTabAndTags.  rev = 1 is the text of lines *)
(* 128-200, rev = 2 the text of lines 619-833, which adds the ITmedia rule. *)
(* The tags, as named here, and their text in the script:                   *)
(*   tsuchi/jimurenraku = 通知/事務連絡; shingikai = 審議会;                *)
(*   kaigi-shiryo = 会議資料; monkasho = 文科省; katsuyo-jirei = 活用事例;  *)
(*   komu = 校務; guideline = ガイドライン; kenshu = 研修;                  *)
(*   chosakuken = 著作権; kojinjoho = 個人情報;                             *)
(*   seiseiAI(kyoiku) = 生成AI(教育); shinkino = 新機能;                    *)
(*   shinmodel = 新モデル; AI-tool = AIツール;                              *)
(*   seiseiAI(saishin) = 生成AI(最新); ENTERPRISE = エンタープライズ;       *)
(*   security = セキュリティ; komuDX = 校務DX; joho-moral = 情報モラル;     *)
(*   hoseido = 法制度; kyotsu-test = 共通テスト; LMS = LMS・学習基盤;       *)
(*   BYOD = 端末・BYOD; network-seibi = ネットワーク整備;                   *)
(*   kyoikuiinkai-jichitai = 教育委員会・自治体; ICT-kyoiku = ICT教育;      *)
(*   programming = プログラミング; data-katsuyo = データ活用;               *)
(*   joho-design = 情報デザイン; network = ネットワーク;                    *)
(*   security(jugyo) = セキュリティ(授業); tankyu-PBL = 探究・PBL;          *)
(*   hyoka = 評価; joho-1 = 情報Ⅰ; workflow = ワークフロー;                 *)
(*   kyoiku-news = 教育ニュース.                                            *)

\* const TAB = { ... }
TAB == [ ICT |-> "ICT", INFO1 |-> "INFO1", EXAM |-> "EXAM", AI_EDU |-> "AI_EDU",
         AI_LATEST |-> "AI_LATEST", MEXT |-> "MEXT" ]

TabValues == { TAB.ICT, TAB.INFO1, TAB.EXAM, TAB.AI_EDU, TAB.AI_LATEST, TAB.MEXT }

\* if(c) tags.push(tag)
PushIf(c, tag) == IF c THEN <<tag>> ELSE <<>>

\* A plausible slip: the fallback tag of a rule is left out.
OrElseForgotten(tags, n, tag) == tags

\* if(tags.length === n) tags.push(tag)
OrElse(tags, n, tag) == IF Len(tags) = n THEN Append(tags, tag) ELSE tags

\* const eduSignals = [...]
eduSignals == { "jugyo", "kyoiku", "gakko", "komu", "guideline", "kenshu", "chosakuken",
                "kojinjoho" }

\* The regulator rule (MEXT detection).
mextRule(t) ==
    LET tags == PushIf(IncludesLower(t, "tsuchi") \/ IncludesLower(t, "jimurenraku"),
                       "tsuchi/jimurenraku")
             \o PushIf(IncludesLower(t, "shingikai"), "shingikai")
             \o PushIf(IncludesLower(t, "kaigi") \/ IncludesLower(t, "shiryo"), "kaigi-shiryo")
    IN  [ tab |-> TAB.MEXT, tags |-> OrElse(tags, 0, "monkasho") ]

\* The outlet rule (rev 2): ITmedia AI+, Enterprise, NEWS, other.
itmediaRule(title, url, source, t) ==
    IF Includes(url, "/aiplus/") \/ Includes(source, "AI+")
    THEN LET t2 == title \o <<" ">> \o url \o <<" ">> \o source
                   \o <<" ", "seisei-AI", " ", "ChatGPT", " ", "LLM">>
             isEdu == \E k \in eduSignals : IncludesLower(t2, k)
         IN  IF isEdu
             THEN LET tags == <<"ITmedia", "AI+">>
                      \o PushIf(IncludesLower(t2, "jirei") \/ IncludesLower(t2, "katsuyo"),
                                "katsuyo-jirei")
                      \o PushIf(IncludesLower(t2, "komu"), "komu")
                      \o PushIf(IncludesLower(t2, "guideline") \/ IncludesLower(t2, "shishin"),
                                "guideline")
                      \o PushIf(IncludesLower(t2, "kenshu"), "kenshu")
                      \o PushIf(IncludesLower(t2, "chosakuken"), "chosakuken")
                      \o PushIf(IncludesLower(t2, "kojinjoho"), "kojinjoho")
                  IN  [ tab |-> TAB.AI_EDU, tags |-> OrElse(tags, 2, "seiseiAI(kyoiku)") ]
             ELSE LET tags == <<"ITmedia", "AI+">>
                      \o PushIf(IncludesLower(t2, "shinkino") \/ IncludesLower(t2, "update"),
                                "shinkino")
                      \o PushIf(IncludesLower(t2, "shinmodel") \/ IncludesLower(t2, "model")
                                    \/ IncludesLower(t2, "llm"), "shinmodel")
                      \o PushIf(IncludesLower(t2, "tool") \/ IncludesLower(t2, "service")
                                    \/ IncludesLower(t2, "app"), "AI-tool")
                  IN  [ tab |-> TAB.AI_LATEST, tags |-> OrElse(tags, 2, "seiseiAI(saishin)") ]
    ELSE IF Includes(url, "/enterprise/") \/ Includes(source, "ENTERPRISE")
    THEN LET tags == <<"ITmedia", "ENTERPRISE">>
                 \o PushIf(\E k \in { "security", "zeijakusei", "fuseiaccess", "johoroei",
                                      "ransom", "phishing" } : IncludesLower(t, k), "security")
                 \o PushIf(\E k \in { "dx", "gyomu", "koritsu", "governance" } :
                               IncludesLower(t, k), "DX")
                 \o PushIf(\E k \in { "gakko", "kyoiku", "komu" } : IncludesLower(t, k), "komuDX")
         IN  [ tab |-> TAB.ICT, tags |-> Dedup(tags) ]
    ELSE IF Includes(url, "/news/") \/ Includes(source, "NEWS")
    THEN LET tags == <<"ITmedia", "NEWS">>
                 \o PushIf(\E k \in { "sns", "hibochusho", "enjo", "privacy", "chosakuken",
                                      "kojinjoho" } : IncludesLower(t, k), "joho-moral")
                 \o PushIf(\E k \in { "ho", "kisei", "guideline" } : IncludesLower(t, k),
                           "hoseido")
         IN  [ tab |-> TAB.ICT, tags |-> Dedup(tags) ]
    ELSE [ tab |-> TAB.ICT, tags |-> <<"ITmedia">> ]

\* The test of the exam rule.
isExam(t) ==
    \/ IncludesLower(t, "kyotsutest")
    \/ IncludesLower(t, "daigakunyugakukyotsutest")
    \/ (IncludesLower(t, "joho_r1") /\ IncludesLower(t, "kyotsu"))

\* The test of the ICT rule.
isIct(t, source) ==
    \/ \E k \in { "ict", "giga", "komudx", "kyoikuict" } : IncludesLower(t, k)
    \/ Includes(source, "ICTkyoikunews")

ictRule(t) ==
    LET tags == PushIf(\E k \in { "giga", "hitoriichidai", "tanmatsu" } : IncludesLower(t, k),
                       "GIGA")
             \o PushIf(\E k \in { "komudx", "komu", "togogatakomu" } : IncludesLower(t, k),
                       "komuDX")
             \o PushIf(\E k \in { "lms", "classroom", "teams", "moodle" } : IncludesLower(t, k),
                       "LMS")
             \o PushIf(IncludesLower(t, "byod"), "BYOD")
             \o PushIf(\E k \in { "network", "wifi", "kaisen" } : IncludesLower(t, k),
                       "network-seibi")
             \o PushIf(\E k \in { "kyoikuiinkai", "jichitai" } : IncludesLower(t, k),
                       "kyoikuiinkai-jichitai")
    IN  [ tab |-> TAB.ICT, tags |-> OrElse(tags, 0, "ICT-kyoiku") ]

\* The test of the subject rule (Info I).
isInfo1(t) ==
    \E k \in { "joho_i", "joho_r1", "joho_sp_R1", "johoka", "koko_sp_joho" } : IncludesLower(t, k)

info1Rule(t) ==
    LET tags == PushIf(\E k \in { "programming", "python", "scratch", "algorithm" } :
                           IncludesLower(t, k), "programming")
             \o PushIf(\E k \in { "datakatsuyo", "tokei", "bunseki", "kashika" } :
                           IncludesLower(t, k), "data-katsuyo")
             \o PushIf(\E k \in { "johodesign", "presen", "media" } : IncludesLower(t, k),
                       "joho-design")
             \o PushIf(IncludesLower(t, "network"), "network")
             \o PushIf(IncludesLower(t, "security"), "security(jugyo)")
             \o PushIf(\E k \in { "tankyu", "pbl" } : IncludesLower(t, k), "tankyu-PBL")
             \o PushIf(\E k \in { "hyoka", "rubric" } : IncludesLower(t, k), "hyoka")
    IN  [ tab |-> TAB.INFO1, tags |-> OrElse(tags, 0, "joho-1") ]

\* The test of the generative-AI rule.
isAi(t) ==
    \E k \in { "seiseiai", "chatgpt", "llm", "aitool", "agent" } : IncludesLower(t, k)

aiRule(t) ==
    IF \E k \in eduSignals : IncludesLower(t, k)
    THEN LET tags == PushIf(\E k \in { "jirei", "katsuyo" } : IncludesLower(t, k),
                            "katsuyo-jirei")
                  \o PushIf(IncludesLower(t, "komu"), "komu")
                  \o PushIf(\E k \in { "guideline", "shishin" } : IncludesLower(t, k),
                            "guideline")
                  \o PushIf(IncludesLower(t, "kenshu"), "kenshu")
                  \o PushIf(IncludesLower(t, "chosakuken"), "chosakuken")
                  \o PushIf(IncludesLower(t, "kojinjoho"), "kojinjoho")
         IN  [ tab |-> TAB.AI_EDU, tags |-> OrElse(tags, 0, "seiseiAI(kyoiku)") ]
    ELSE LET tags == PushIf(\E k \in { "shinkino", "update" } : IncludesLower(t, k), "shinkino")
                  \o PushIf(\E k \in { "shinmodel", "llm", "model" } : IncludesLower(t, k),
                            "shinmodel")
                  \o PushIf(\E k \in { "tool", "service", "app" } : IncludesLower(t, k),
                            "AI-tool")
                  \o PushIf(\E k \in { "shigotojutsu", "workflow" } : IncludesLower(t, k),
                            "workflow")
         IN  [ tab |-> TAB.AI_LATEST, tags |-> OrElse(tags, 0, "seiseiAI(saishin)") ]

assignTabAndTags(rev, title, url, source) ==
    LET t == title \o <<" ">> \o url \o <<" ">> \o source
        isMext == Includes(url, "mext.go.jp") \/ IncludesLower(source, "monbukagakusho")
        isItmedia == rev = 2 /\ (Includes(url, "itmedia.co.jp")
                                    \/ IncludesLower(source, "itmedia"))
    IN  IF isMext THEN mextRule(t)
        ELSE IF isItmedia THEN itmediaRule(title, url, source, t)
        ELSE IF isExam(t) THEN [ tab |-> TAB.EXAM, tags |-> <<"kyotsu-test">> ]
        ELSE IF isIct(t, source) THEN ictRule(t)
        ELSE IF isInfo1(t) THEN info1Rule(t)
        ELSE IF isAi(t) THEN aiRule(t)
        ELSE [ tab |-> TAB.ICT, tags |-> <<"kyoiku-news">> ]   \* fallback

-----------------------------------------------------------------------------
(* Time and dates.                                                          *)

\* const DAYS_KEEP = 7
DAYS_KEEP == 7

\* The units of one day: the epsilon of the retention test, 0.001 day, is one unit.
UnitsPerDay == 1000

\* new Date(): the instant of the run.
Now == 10 * UnitsPerDay

\* A publishedAt value: the ISO string of instant t, an unparseable string, or no value.
Iso(t) == [ kind |-> "iso", t |-> t ]

BadDate == [ kind |-> "bad", t |-> 0 ]

NoDate == [ kind |-> "none", t |-> 0 ]

\* !Number.isNaN(new Date(p).getTime())
IsDate(p) == p.kind = "iso"

\* JST_NOW(): the ISO string, with offset +09:00, of the present instant.
JST_NOW == Iso(Now)

\* new Date(a) < new Date(b): false when either is an invalid date (NaN).
DateLess(a, b) == IsDate(a) /\ IsDate(b) /\ a.t < b.t

\* daysDiffFromNow(iso) <= days + eps units; false for an invalid date (NaN).
AgeAtMost(p, days, eps) == IsDate(p) /\ Now - p.t <= days * UnitsPerDay + eps

-----------------------------------------------------------------------------
(* The scorer: fetch.js computeScore, lines 202-228 (rev 1) and 835-865     *)
(* (rev 2, with the ITmedia bonus).                                         *)

\* const teachKeys = [...]
teachKeys == { "jugyo", "kyozai", "shidoan", "jissen", "worksheet", "hyoka", "rubric" }

\* The tab boosts.
TabBoost(tab) ==
    CASE tab = TAB.ICT       -> 8
      [] tab = TAB.INFO1     -> 6
      [] tab = TAB.AI_LATEST -> 4
      [] tab = TAB.AI_EDU    -> 3
      [] tab = TAB.MEXT      -> 2
      [] tab = TAB.EXAM      -> 1
      [] OTHER               -> 0

\* A plausible slip: the tiers of the recency bonus the wrong way round.
RecencyBoostReversed(p) ==
    IF AgeAtMost(p, 1, 0) THEN 2
    ELSE IF AgeAtMost(p, 3, 0) THEN 4
    ELSE IF AgeAtMost(p, 7, 0) THEN 6
    ELSE 0

\* The recency bonus.
RecencyBoost(p) ==
    IF AgeAtMost(p, 1, 0) THEN 6
    ELSE IF AgeAtMost(p, 3, 0) THEN 4
    ELSE IF AgeAtMost(p, 7, 0) THEN 2
    ELSE 0

computeScore(rev, item) ==
      (IF Includes(item.source, "ICTkyoikunews") THEN 20 ELSE 0)
    + (IF Includes(item.url, "mext.go.jp") THEN 10 ELSE 0)
    + (IF rev = 2 /\ (IncludesLower(item.source, "itmedia")
                        \/ Includes(item.url, "itmedia.co.jp")) THEN 6 ELSE 0)
    + TabBoost(item.tab)
    + (IF \E k \in teachKeys : IncludesLower(item.title, k) THEN 5 ELSE 0)
    + RecencyBoost(item.publishedAt)

-----------------------------------------------------------------------------
(* The aggregator: fetch.js dedupeAndEnrich, lines 376-428 (same text at    *)
(* lines 1067-1122).  The Map is the sequence of its values in insertion    *)
(* order; an Item is a record.                                              *)

\* The cap of the result, items.slice(0, 800), scaled to the size of the model.
ItemCap == 2

\* "sha1:" + sha1(url): a digest is taken to be free of collisions.
ItemId(url) == <<"sha1:">> \o url

\* The Item made of one provisional record (the body of the loop before the merge).
MakeItem(rev, r) ==
    LET url   == stripTracking(r.url)
        title == Trim(r.title)
        c     == assignTabAndTags(rev, title, url, r.source)
        item  == [ id |-> ItemId(url), title |-> title, url |-> url,
                   source |-> IF r.source = <<>> THEN <<"dash">> ELSE r.source,
                   publishedAt |-> IF r.publishedAt.kind = "none" THEN JST_NOW
                                   ELSE r.publishedAt,
                   tab |-> c.tab, tags |-> c.tags, score |-> 0 ]
    IN  [ item EXCEPT !.score = computeScore(rev, item) ]

\* if(!url || !title) continue;
Skipped(r) == stripTracking(r.url) = <<>> \/ Trim(r.title) = <<>>

\* A plausible slip: the merge keeps the tags of the first record only.
MergeKeepsFirstTags(base, item) ==
    [ base EXCEPT
        !.title = IF StrLen(item.title) > StrLen(base.title) THEN item.title ELSE base.title,
        !.publishedAt = IF DateLess(item.publishedAt, base.publishedAt)
                        THEN base.publishedAt ELSE item.publishedAt,
        !.score = Max(base.score, item.score) ]

\* A plausible slip: >= for > in the choice of the title, and the source of the later
\* record.
MergeLaterWins(base, item) ==
    [ base EXCEPT
        !.title = IF StrLen(item.title) >= StrLen(base.title) THEN item.title ELSE base.title,
        !.source = item.source,
        !.publishedAt = IF DateLess(item.publishedAt, base.publishedAt)
                        THEN base.publishedAt ELSE item.publishedAt,
        !.tags = Dedup(base.tags \o item.tags),
        !.score = Max(base.score, item.score) ]

\* The merge branch: { ...base, title, publishedAt, tags, score }.
Merge(base, item) ==
    [ base EXCEPT
        !.title = IF StrLen(item.title) > StrLen(base.title) THEN item.title ELSE base.title,
        !.publishedAt = IF DateLess(item.publishedAt, base.publishedAt)
                        THEN base.publishedAt ELSE item.publishedAt,
        !.tags = Dedup(base.tags \o item.tags),
        !.score = Max(base.score, item.score) ]

\* map.set(id, v): a new key goes to the end, a known key keeps its place.
MapSet(map, v) ==
    IF \E i \in 1..Len(map) : map[i].id = v.id
    THEN [ i \in 1..Len(map) |-> IF map[i].id = v.id THEN v ELSE map[i] ]
    ELSE Append(map, v)

RECURSIVE MergeAll(_, _, _)
\* The loop over rawItems, from the map built so far.
MergeAll(rev, map, raw) ==
    IF raw = <<>> THEN map
    ELSE LET r == Head(raw)
         IN  IF Skipped(r) THEN MergeAll(rev, map, Tail(raw))
             ELSE LET item == MakeItem(rev, r)
                      hit  == { i \in 1..Len(map) : map[i].id = item.id }
                  IN  IF hit = {}
                      THEN MergeAll(rev, MapSet(map, item), Tail(raw))
                      ELSE MergeAll(rev,
                                    MapSet(map, Merge(map[CHOOSE i \in hit : TRUE], item)),
                                    Tail(raw))

\* A plausible slip: the retention test is left out.
RetainedAll(list) == list

\* items.filter(x => daysDiffFromNow(x.publishedAt) <= DAYS_KEEP + 0.001)
Retained(list) == SelectSeq(list, LAMBDA x : AgeAtMost(x.publishedAt, DAYS_KEEP, 1))

\* A plausible slip: the sort looks at the score only.
compareScoreOnly(a, b) == b.score - a.score

\* The comparator of the sort: negative when a goes before b.  A NaN result (an invalid
\* date) counts as 0.
compareItems(a, b) ==
    IF b.score - a.score # 0 THEN b.score - a.score
    ELSE IF IsDate(a.publishedAt) /\ IsDate(b.publishedAt)
         THEN b.publishedAt.t - a.publishedAt.t
         ELSE 0

RECURSIVE InsertSorted(_, _)
\* x put before the first element that it strictly precedes.
InsertSorted(sorted, x) ==
    IF sorted = <<>> THEN <<x>>
    ELSE IF compareItems(x, Head(sorted)) < 0 THEN <<x>> \o sorted
         ELSE <<Head(sorted)>> \o InsertSorted(Tail(sorted), x)

RECURSIVE SortItems(_)
\* items.sort(compare): Array.prototype.sort is stable.
SortItems(list) ==
    IF list = <<>> THEN <<>>
    ELSE InsertSorted(SortItems(Front(list)), Last(list))

\* items.slice(0, n)
Slice0(list, n) == SubSeq(list, 1, Min(n, Len(list)))

\* A plausible slip: the list is cut before it is sorted.
FinishCapFirst(map) == SortItems(Slice0(Retained(map), ItemCap))

\* The end of dedupeAndEnrich: filter, sort, cap.
Finish(map) == Slice0(SortItems(Retained(map)), ItemCap)

dedupeAndEnrich(rev, raw) == Finish(MergeAll(rev, <<>>, raw))

-----------------------------------------------------------------------------
(* Idle values: every specification below moves the variables of one part  *)
(* of the program and leaves the others at these values.                    *)

NoResult == [ tab |-> "", tags |-> <<>> ]

NoCall == [ rev |-> 0, title |-> <<>>, url |-> <<>>, source |-> <<>> ]

\* data/items.json: not written, or written with the items of the run.
NoArtifact == [ written |-> FALSE, items |-> <<>> ]

NoToggle == [ id |-> <<>>, before |-> [ map |-> <<>>, order |-> <<>> ], wasIn |-> FALSE, calls |-> 0 ]

IdleUrl == urlIn = <<>> /\ urlOut = <<>>

IdleCls == clsIn = NoCall /\ clsOut = NoResult

IdleAgg == rawItems = <<>> /\ mergedItems = <<>> /\ items = <<>> /\ aggPc = "idle"

IdleRun == /\ pc = "idle" /\ srcIdx = 0 /\ net = "idle" /\ feed = <<>> /\ collected = <<>>
           /\ outcome = <<>> /\ artifact = NoArtifact /\ exitCode = -1

IdleBm == store = [ kind |-> "absent", map |-> <<>>, order |-> <<>> ] /\ lastToggle = NoToggle

\* The page before its script ran: let allItems = [], filtered = [], activeTab = "TODAY",
\* activeTag = null.
\* Nothing rendered yet: the instants renderTags and applyFilters last ran at, and the
\* bookmark store applyFilters read.
NoRender ==
    [ tagRow |-> Now, filtered |-> Now,
      store |-> [ kind |-> "absent", map |-> <<>>, order |-> <<>> ] ]

IdleView ==
    /\ allItems = <<>> /\ filtered = <<>> /\ activeTab = "TODAY" /\ activeTag = ""
    /\ searchInput = <<>> /\ daysSelect = 7 /\ sortSelect = "score" /\ tagRow = <<>>
    /\ clock = Now /\ renderedAt = NoRender

-----------------------------------------------------------------------------
(* SpecUrl: stripTracking applied once and again to a URL string.           *)

\* Bounds of the URL strings: tokens of the path, pairs of the query.
MaxPath == 3

MaxParams == 2

\* The paths: empty, or "/" and segment tokens, starting with "/".
UrlPaths == { p \in SeqUpTo({"/", "p1"}, MaxPath) : p = <<>> \/ Head(p) = "/" }

\* The queries: none, or "?" and pairs (tracking or not) joined by "&".
UrlQueries == {<<>>} \cup { <<"?">> \o JoinParams(ps) :
                            ps \in SeqUpTo({"utm_source=x", "id=1"}, MaxParams) }

UrlHashes == { <<>>, <<"#">>, <<"#", "f1">>, <<"#", "/">> }

\* The URL strings tried: the parseable ones, and strings new URL() rejects.
UrlInputs ==
    { <<"https://example.com">> \o p \o q \o h : p \in UrlPaths, q \in UrlQueries, h \in UrlHashes }
    \cup { <<>>, <<"garbage">>, <<"/", "p1", "/">>, <<"p1", "/", "/">> }

InitUrl ==
    /\ urlIn \in UrlInputs
    /\ urlOut = <<>>
    /\ scriptRev = 1
    /\ IdleCls /\ IdleAgg /\ IdleRun /\ IdleBm /\ IdleView

\* stripTracking(url), then stripTracking of its result.
StripTrackingCall ==
    /\ Len(urlOut) < 2
    /\ urlOut' = Append(urlOut, stripTracking(IF urlOut = <<>> THEN urlIn ELSE Last(urlOut)))
    /\ UNCHANGED <<urlIn, scriptRev, clsVars, aggVars, runVars, bmVars, viewVars>>

NextUrl == StripTrackingCall

SpecUrl == InitUrl /\ [][NextUrl]_vars

-----------------------------------------------------------------------------
(* SpecClassify: assignTabAndTags applied to a (title, url, source) triple. *)

\* Bound of the titles: tokens of a title.
MaxTitle == 2

ClsToks == { " ", "GIGA-school", "kyotsu-test", "joho-R1", "joho-I", "komu-DX", "seisei-AI",
             "LLM", "gakko", "shingikai", "security", "guideline", "happyo" }

\* "GIGAスクール 端末 更新 へ"
TitleGiga == <<"GIGA-school", " ", "tanmatsu", " ", "koshin", " ", "he">>

ClsTitles == SeqUpTo(ClsToks, MaxTitle) \cup { TitleGiga }

ClsUrls == { <<"https://example.com", "/", "p1">>,
             <<"https://www.mext.go.jp", "/", "p1">>,
             <<"https://www.itmedia.co.jp", "/", "aiplus", "/", "p1">>,
             <<"https://www.itmedia.co.jp", "/", "news", "/", "p1">>,
             <<"https://www.itmedia.co.jp", "/", "enterprise", "/", "p1">>,
             <<"https://www.itmedia.co.jp", "/", "p1">>,
             <<"https://ict-enews.net", "/", "p1">>,
             <<"garbage">> }

ClsSources == { <<>>, <<"dash">>, <<"ICT-kyoiku-news">>, <<"monbukagakusho">>,
                <<"Google News:", " ", "kyotsu-test", " ", "joho-I">>,
                <<"Google News:", " ", "seisei-AI", " ", "shin-kino">>,
                <<"ITmedia", " ", "AI+">>, <<"ITmedia", " ", "NEWS">>,
                <<"ITmedia", " ", "ENTERPRISE">> }

InitClassify ==
    /\ clsIn \in [ rev : {1, 2}, title : ClsTitles, url : ClsUrls, source : ClsSources ]
    /\ clsOut = NoResult
    /\ scriptRev = clsIn.rev
    /\ IdleUrl /\ IdleAgg /\ IdleRun /\ IdleBm /\ IdleView

\* clsOut = assignTabAndTags(title, url, source)
Classify ==
    /\ clsIn # NoCall
    /\ clsOut = NoResult
    /\ clsOut' = assignTabAndTags(clsIn.rev, clsIn.title, clsIn.url, clsIn.source)
    /\ UNCHANGED <<clsIn, scriptRev, urlVars, aggVars, runVars, bmVars, viewVars>>

NextClassify == Classify

SpecClassify == InitClassify /\ [][NextClassify]_vars

-----------------------------------------------------------------------------
(* SpecAgg: dedupeAndEnrich applied to a list of provisional records.       *)

\* Bound of the lists: provisional records of a list.
MaxRaw == 4

Rec(title, url, source, publishedAt) ==
    [ title |-> title, url |-> url, source |-> source, publishedAt |-> publishedAt ]

\* The provisional records tried.  Three of the URLs have the same canonical form.
AggRecords == {
    Rec(<<"GIGA-school", " ", "tanmatsu">>, <<"https://example.com", "/", "p1">>,
        <<>>, Iso(Now - 500)),
    Rec(<<"kyotsu-test", " ", "jugyo">>,
        <<"https://example.com", "/", "p1", "?", "utm_source=x">>,
        <<"Google News:", " ", "kyotsu-test">>, Iso(Now - 2000)),
    Rec(<<"happyo">>, <<"https://example.com", "/", "p2">>, <<>>, Iso(Now - 900)),
    Rec(<<" ", "seisei-AI", " ", "jugyo">>, <<"https://example.com", "/", "p2", "/">>,
        <<>>, Iso(Now - 7001)),
    Rec(<<"shingikai">>, <<"https://www.mext.go.jp", "/", "p3">>, <<"monbukagakusho">>,
        NoDate),
    Rec(<<"LLM">>, <<"https://www.mext.go.jp", "/", "p3">>, <<>>, BadDate),
    Rec(<<"joho-I", " ", "hyoka">>, <<"https://ict-enews.net", "/", "p4">>,
        <<"ICT-kyoiku-news">>, Iso(Now - 8000)),
    Rec(<<" ">>, <<"https://example.com", "/", "p1">>, <<>>, Iso(Now - 500)) }

InitAgg ==
    /\ rawItems \in SeqUpTo(AggRecords, MaxRaw)
    /\ scriptRev \in {1, 2}
    /\ mergedItems = <<>> /\ items = <<>> /\ aggPc = "call"
    /\ IdleUrl /\ IdleCls /\ IdleRun /\ IdleBm /\ IdleView

\* items = dedupeAndEnrich(rawItems); mergedItems is Array.from(map.values()) after the loop.
DedupeAndEnrichCall ==
    /\ aggPc = "call"
    /\ mergedItems' = MergeAll(scriptRev, <<>>, rawItems)
    /\ items' = dedupeAndEnrich(scriptRev, rawItems)
    /\ aggPc' = "done"
    /\ UNCHANGED <<rawItems, scriptRev, urlVars, clsVars, runVars, bmVars, viewVars>>

NextAgg == DedupeAndEnrichCall

SpecAgg == InitAgg /\ [][NextAgg]_vars

-----------------------------------------------------------------------------
(* Spec: one run of the script, fetch.js main (lines 430-449), collect      *)
(* (lines 313-374) and fetchText (lines 26-37).  The sources are attempted  *)
(* one after the other; the network answers a pending fetch with a body, a  *)
(* non-2xx status or an error, or does not answer.                          *)

\* Bounds of the source lists: the queries of GOOGLE_NEWS_QUERIES, the pages of MEXT_PAGES.
NumQueries == 2

NumPages == 1

\* links.slice(0, 60)
LinkCap == 60

\* Some of the search phrases of GOOGLE_NEWS_QUERIES.
QueryList == << <<"ICT", "kyoiku", " ", "gakko">>,
                <<"kyotsu-test", " ", "joho-I">>,
                <<"seisei-AI", " ", "shin-kino">> >>

Query(i) == QueryList[((i - 1) % Len(QueryList)) + 1]

\* The sources in the order collect() attempts them: ICT_ENEWS_RSS, the queries, the pages.
Sources ==
    << [ kind |-> "rss", label |-> <<"ICT-kyoiku-news">> ] >>
    \o [ i \in 1..NumQueries |->
           [ kind |-> "rss", label |-> <<"Google News:", " ">> \o Query(i) ] ]
    \o [ j \in 1..NumPages |-> [ kind |-> "html", label |-> <<"monbukagakusho">> ] ]

NumSources == Len(Sources)

\* An entry of a parsed feed, or a harvested link (publishedRaw is not read for a link).
Entry(title, url, publishedRaw) ==
    [ title |-> title, url |-> url, publishedRaw |-> publishedRaw ]

EntryA == Entry(<<"GIGA-school", " ", "tanmatsu">>,
                <<"https://example.com", "/", "p1", "?", "utm_source=x">>, Iso(Now - 500))

EntryB == Entry(<<"seisei-AI", " ", "jugyo">>, <<"https://example.com", "/", "p2", "/">>,
                BadDate)

\* The bodies a source may answer with, as parseRssItems / parseLinksFromHtml read them.
Bodies == { <<>>, <<EntryA>>, <<EntryB, EntryA>> }

\* parsePubDate(pub) || JST_NOW()
PubDateOrNow(raw) == IF IsDate(raw) THEN raw ELSE JST_NOW

\* The records one source pushes to items after a successful fetch.
Pushed(src, body) ==
    IF src.kind = "rss"
    THEN [ i \in 1..Len(body) |->
             Rec(body[i].title, stripTracking(body[i].url), src.label,
                 PubDateOrNow(body[i].publishedRaw)) ]
    ELSE LET links == Slice0(body, LinkCap)
         IN  [ i \in 1..Len(links) |->
                 Rec(links[i].title, stripTracking(links[i].url), src.label, JST_NOW) ]

Init ==
    /\ pc = "main" /\ srcIdx = 0 /\ net = "idle" /\ feed = <<>> /\ collected = <<>>
    /\ outcome = <<>> /\ artifact = NoArtifact /\ exitCode = -1
    /\ scriptRev = 1
    /\ IdleUrl /\ IdleCls /\ IdleAgg /\ IdleBm /\ IdleView

\* A run leaves alone the variables of the functions modelled apart.
OtherParts == UNCHANGED <<scriptRev, urlVars, clsVars, aggVars, bmVars, viewVars>>

\* fs.mkdirSync(...) succeeds; collect() starts with the first source.
MkdirOk ==
    /\ pc = "main"
    /\ pc' = "collect" /\ srcIdx' = 1
    /\ UNCHANGED <<net, feed, collected, outcome, artifact, exitCode>>
    /\ OtherParts

\* fs.mkdirSync(...) throws: main() rejects, process.exit(1).
MkdirFails ==
    /\ pc = "main"
    /\ pc' = "failed-mkdir" /\ exitCode' = 1
    /\ UNCHANGED <<srcIdx, net, feed, collected, outcome, artifact>>
    /\ OtherParts

\* await fetchText(url): the request leaves.
FetchStart ==
    /\ pc = "collect" /\ srcIdx <= NumSources /\ net = "idle"
    /\ net' = "pending"
    /\ UNCHANGED <<pc, srcIdx, feed, collected, outcome, artifact, exitCode>>
    /\ OtherParts

\* The network answers 2xx with a body.
RespondOk ==
    /\ net = "pending"
    /\ \E b \in Bodies : feed' = b
    /\ net' = "ok"
    /\ UNCHANGED <<pc, srcIdx, collected, outcome, artifact, exitCode>>
    /\ OtherParts

\* The network answers with a non-2xx status: fetchText throws.
RespondStatus ==
    /\ net = "pending"
    /\ net' = "status"
    /\ UNCHANGED <<pc, srcIdx, feed, collected, outcome, artifact, exitCode>>
    /\ OtherParts

\* The fetch rejects (network error).
RespondError ==
    /\ net = "pending"
    /\ net' = "error"
    /\ UNCHANGED <<pc, srcIdx, feed, collected, outcome, artifact, exitCode>>
    /\ OtherParts

\* The body of the try block: parse, push every record.
HandleBody ==
    /\ pc = "collect" /\ net = "ok"
    /\ collected' = collected \o Pushed(Sources[srcIdx], feed)
    /\ outcome' = Append(outcome, [ ok |-> TRUE, body |-> feed ])
    /\ srcIdx' = srcIdx + 1 /\ net' = "idle" /\ feed' = <<>>
    /\ UNCHANGED <<pc, artifact, exitCode>>
    /\ OtherParts

\* A plausible slip: no try/catch around the fetch, the failure rejects main().
HandleFailureUncaught ==
    /\ pc = "collect" /\ net \in {"status", "error"}
    /\ pc' = "failed-fetch" /\ exitCode' = 1
    /\ UNCHANGED <<srcIdx, net, feed, collected, outcome, artifact>>
    /\ OtherParts

\* catch(e){ console.warn(...) }: the loop goes on with the next source.
HandleFailure ==
    /\ pc = "collect" /\ net \in {"status", "error"}
    /\ outcome' = Append(outcome, [ ok |-> FALSE, body |-> <<>> ])
    /\ srcIdx' = srcIdx + 1 /\ net' = "idle"
    /\ UNCHANGED <<pc, feed, collected, artifact, exitCode>>
    /\ OtherParts

\* A plausible slip: the aggregation does not wait for the attempt of the last source.
AggregateEarly ==
    /\ pc = "collect" /\ srcIdx >= NumSources
    /\ artifact' = [ written |-> FALSE, items |-> dedupeAndEnrich(scriptRev, collected) ]
    /\ pc' = "write"
    /\ UNCHANGED <<srcIdx, net, feed, collected, outcome, exitCode>>
    /\ OtherParts

\* return items; const items = dedupeAndEnrich(raw);
Aggregate ==
    /\ pc = "collect" /\ srcIdx = NumSources + 1 /\ net = "idle"
    /\ artifact' = [ written |-> FALSE, items |-> dedupeAndEnrich(scriptRev, collected) ]
    /\ pc' = "write"
    /\ UNCHANGED <<srcIdx, net, feed, collected, outcome, exitCode>>
    /\ OtherParts

\* fs.writeFileSync(OUT_PATH, ...) succeeds: the run ends.
WriteOk ==
    /\ pc = "write"
    /\ artifact' = [ artifact EXCEPT !.written = TRUE ]
    /\ pc' = "done" /\ exitCode' = 0
    /\ UNCHANGED <<srcIdx, net, feed, collected, outcome>>
    /\ OtherParts

\* fs.writeFileSync throws: main() rejects, process.exit(1).
WriteFails ==
    /\ pc = "write"
    /\ pc' = "failed-write" /\ exitCode' = 1
    /\ UNCHANGED <<srcIdx, net, feed, collected, outcome, artifact>>
    /\ OtherParts

\* The steps of the script itself.
ScriptStep ==
    \/ MkdirOk \/ MkdirFails \/ FetchStart \/ HandleBody \/ HandleFailure
    \/ Aggregate \/ WriteOk \/ WriteFails

\* The answers of the network.
NetworkStep == RespondOk \/ RespondStatus \/ RespondError

Next == ScriptStep \/ NetworkStep

Spec == Init /\ [][Next]_vars

\* The steps of the script other than the call of dedupeAndEnrich.
EventLoopStep ==
    MkdirOk \/ MkdirFails \/ FetchStart \/ HandleBody \/ HandleFailure \/ WriteOk \/ WriteFails

\* collect() has returned: the guard of Aggregate.
AggregateReady == pc = "collect" /\ srcIdx = NumSources + 1 /\ net = "idle"

\* The event loop runs every step of the script that can be taken (weak fairness of the
\* script's steps, that of Aggregate written out with its guard); nothing makes the
\* network answer.
SpecFair ==
    /\ Spec
    /\ WF_vars(EventLoopStep)
    /\ ([]<>(~AggregateReady) \/ []<><<Aggregate>>_vars)


-----------------------------------------------------------------------------
(* SpecBookmarks: the bookmark store of the front end, loadBookmarks,       *)
(* saveBookmarks and toggleBookmark (lines 32-80 of the front-end script).  *)
(* localStorage[LS_KEY] is absent, text that JSON.parse rejects, or the     *)
(* JSON of { map, order }; map is a function from ids to snapshots.         *)

\* const CAP = 500, scaled to the size of the model.
BookmarkCap == 3

AbsentStore == [ kind |-> "absent", map |-> <<>>, order |-> <<>> ]

CorruptStore == [ kind |-> "corrupt", map |-> <<>>, order |-> <<>> ]

\* { map:{}, order:[] }
EmptyBookmarks == [ map |-> <<>>, order |-> <<>> ]

\* The items the user can toggle: one more than the cap holds, and one again.
BookmarkItem(n) ==
    [ id |-> ItemId(<<"https://example.com", "/", ToString(n)>>),
      title |-> <<"happyo", " ", ToString(n)>>,
      url |-> <<"https://example.com", "/", ToString(n)>>,
      source |-> <<"dash">>, publishedAt |-> Iso(Now - n * UnitsPerDay),
      tab |-> TAB.ICT, tags |-> <<"kyoiku-news">>, score |-> 8 + n ]

BookmarkItems == { BookmarkItem(n) : n \in 1..(BookmarkCap + 2) }

\* loadBookmarks(): the stored object, { map:{}, order:[] } when there is none or
\* JSON.parse throws.
loadBookmarks(st) ==
    IF st.kind = "json" THEN [ map |-> st.map, order |-> st.order ] ELSE EmptyBookmarks

\* saveBookmarks(bm): localStorage.setItem(LS_KEY, JSON.stringify(bm))
saveBookmarks(bm) == [ kind |-> "json", map |-> bm.map, order |-> bm.order ]

\* bm.map[id] is truthy.
InMap(bm, id) == id \in DOMAIN bm.map

\* A plausible slip: the snapshots are never deleted.
MapDeleteNone(map, ids) == map

\* delete bm.map[id], for every id of ids.
MapDelete(map, ids) == [ k \in (DOMAIN map) \ ids |-> map[k] ]

\* bm.map[id] = snap
MapPut(map, id, snap) == [ k \in (DOMAIN map) \cup {id} |-> IF k = id THEN snap ELSE map[k] ]

\* The snapshot taken of an item: { id, title, url, source, publishedAt, tab, tags, score }.
Snapshot(item) ==
    [ id |-> item.id, title |-> item.title, url |-> item.url, source |-> item.source,
      publishedAt |-> item.publishedAt, tab |-> item.tab, tags |-> item.tags,
      score |-> item.score ]

\* A plausible slip: the id leaves the order and its snapshot stays in the map.
toggleBookmarkLeavesSnapshot(st, item) ==
    LET bm == loadBookmarks(st)
    IN  IF InMap(bm, item.id)
        THEN saveBookmarks([ map   |-> bm.map,
                             order |-> SelectSeq(bm.order, LAMBDA x : x # item.id) ])
        ELSE LET order == <<item.id>> \o bm.order
                 map   == MapPut(bm.map, item.id, Snapshot(item))
             IN  IF Len(order) > BookmarkCap
                 THEN saveBookmarks(
                          [ map   |-> MapDelete(map, Range(SubSeq(order, BookmarkCap + 1,
                                                                  Len(order)))),
                            order |-> SubSeq(order, 1, BookmarkCap) ])
                 ELSE saveBookmarks([ map |-> map, order |-> order ])

\* A plausible slip: the cap keeps the tail of the order (order.slice(-CAP)) and drops
\* the bookmark just added.
toggleBookmarkEvictsNewest(st, item) ==
    LET bm == loadBookmarks(st)
    IN  IF InMap(bm, item.id)
        THEN saveBookmarks([ map   |-> MapDelete(bm.map, {item.id}),
                             order |-> SelectSeq(bm.order, LAMBDA x : x # item.id) ])
        ELSE LET order == <<item.id>> \o bm.order
                 map   == MapPut(bm.map, item.id, Snapshot(item))
             IN  IF Len(order) > BookmarkCap
                 THEN saveBookmarks(
                          [ map   |-> MapDelete(map, Range(SubSeq(order, 1,
                                                                  Len(order) - BookmarkCap))),
                            order |-> SubSeq(order, Len(order) - BookmarkCap + 1,
                                             Len(order)) ])
                 ELSE saveBookmarks([ map |-> map, order |-> order ])

\* toggleBookmark(item): the store after the call.
toggleBookmark(st, item) ==
    LET bm == loadBookmarks(st)
    IN  IF InMap(bm, item.id)
        THEN saveBookmarks([ map   |-> MapDelete(bm.map, {item.id}),
                             order |-> SelectSeq(bm.order, LAMBDA x : x # item.id) ])
        ELSE LET order == <<item.id>> \o bm.order                 \* unshift
                 map   == MapPut(bm.map, item.id, Snapshot(item))
             IN  IF Len(order) > BookmarkCap
                 THEN saveBookmarks(
                          [ map   |-> MapDelete(map, Range(SubSeq(order, BookmarkCap + 1,
                                                                  Len(order)))),
                            order |-> SubSeq(order, 1, BookmarkCap) ])
                 ELSE saveBookmarks([ map |-> map, order |-> order ])

InitBookmarks ==
    /\ store \in { AbsentStore, CorruptStore, saveBookmarks(EmptyBookmarks) }
    /\ lastToggle = NoToggle
    /\ scriptRev = 1
    /\ IdleUrl /\ IdleCls /\ IdleAgg /\ IdleRun /\ IdleView

\* The user toggles the star of an item.  lastToggle records the id, what loadBookmarks
\* returned before the first of two calls in a row for that id, whether the id was
\* bookmarked then, and whether this call is the first or the second of the two.
ToggleBookmark ==
    \E item \in BookmarkItems :
        /\ store' = toggleBookmark(store, item)
        /\ lastToggle' =
               IF lastToggle.id = item.id /\ lastToggle.calls = 1
               THEN [ lastToggle EXCEPT !.calls = 2 ]
               ELSE [ id |-> item.id, before |-> loadBookmarks(store),
                      wasIn |-> InMap(loadBookmarks(store), item.id), calls |-> 1 ]
        /\ UNCHANGED <<scriptRev, urlVars, clsVars, aggVars, runVars, viewVars>>

NextBookmarks == ToggleBookmark

SpecBookmarks == InitBookmarks /\ [][NextBookmarks]_vars


-----------------------------------------------------------------------------
(* SpecView: the view-model of the front end (withinDays, pickToday,        *)
(* applyFilters, renderTags, setTab; lines 96-246 of the front-end script)  *)
(* together with the bookmark store.  The part of the script that loads     *)
(* data/items.json and wires the inputs is not in the file: LoadArtifact    *)
(* follows the specification, and a change of an input is followed by       *)
(* applyFilters, which reads it.                                            *)

\* The keys of TABS.
TabKeys == { "TODAY", "ICT", "INFO1", "EXAM", "AI_EDU", "AI_LATEST", "MEXT", "X", "BOOKMARKS" }

\* .slice(0, 6) and .slice(0, 20) of pickToday, .slice(0, 16) of renderTags, scaled to the
\* size of the model (six buckets of PickPerTab items are more than PickCap).
PickPerTab == 1

PickCap == 2

TagCap == 2

\* The clock of the browser moves on MaxTicks times, by TickUnits.
MaxTicks == 1

TickUnits == 5 * UnitsPerDay

\* withinDays(item, days) at the instant now.
withinDays(item, days, now) ==
    IF item.publishedAt.kind = "none" THEN TRUE       \* || now.toISOString()
    ELSE IsDate(item.publishedAt) /\ now - item.publishedAt.t <= days * UnitsPerDay + 1

\* new Date(x.publishedAt || 0).getTime(); -1 stands for NaN.
TimeOf(x) ==
    IF x.publishedAt.kind = "none" THEN 0
    ELSE IF IsDate(x.publishedAt) THEN x.publishedAt.t ELSE -1

\* The comparators of the front end: "score" is that of pickToday, "new" and "score-new"
\* are those of applyFilters.  A NaN difference counts as 0.
compareBy(mode, a, b) ==
    LET byTime == IF TimeOf(a) = -1 \/ TimeOf(b) = -1 THEN 0 ELSE TimeOf(b) - TimeOf(a)
    IN  CASE mode = "score" -> b.score - a.score
          [] mode = "new"   -> byTime
          [] OTHER          -> IF b.score - a.score # 0 THEN b.score - a.score ELSE byTime

RECURSIVE InsertBy(_, _, _)
InsertBy(mode, sorted, x) ==
    IF sorted = <<>> THEN <<x>>
    ELSE IF compareBy(mode, x, Head(sorted)) < 0 THEN <<x>> \o sorted
         ELSE <<Head(sorted)>> \o InsertBy(mode, Tail(sorted), x)

RECURSIVE SortBy(_, _)
\* list.sort(compare): stable.
SortBy(mode, list) ==
    IF list = <<>> THEN <<>>
    ELSE InsertBy(mode, SortBy(mode, Front(list)), Last(list))

RECURSIVE DedupById(_)
\* if(!map.has(it.id)) map.set(it.id, it): the first item of every id.
DedupById(list) ==
    IF list = <<>> THEN <<>>
    ELSE LET f == DedupById(Front(list))
         IN  IF \E i \in 1..Len(f) : f[i].id = Last(list).id THEN f ELSE Append(f, Last(list))

\* const buckets = [...]
buckets == <<"ICT", "INFO1", "AI_LATEST", "AI_EDU", "MEXT", "EXAM">>

\* pickToday(items) at the instant now.
pickToday(its, now) ==
    LET part(b) == Slice0(SortBy("score",
                       SelectSeq(SelectSeq(its, LAMBDA x : x.tab = b),
                                 LAMBDA x : withinDays(x, 7, now))), PickPerTab)
        picked == Concat([ i \in 1..Len(buckets) |-> part(buckets[i]) ])
    IN  Slice0(SortBy("score", DedupById(picked)), PickCap)

\* The lower-case patterns that the lower-cased text of a token contains: those of the
\* titles and sources, "exam" in the tab key EXAM and "giga" in the tag GIGA.
SearchHas(tok) ==
    LowerHas(tok) \cup ( CASE tok = "EXAM" -> {"exam"}
                           [] tok = "GIGA" -> {"giga"}
                           [] OTHER        -> {} )

\* searchInput.value.trim().toLowerCase(), for an input of one word: "" or its pattern.
QueryOf(input) ==
    LET w == Trim(input)
    IN  IF w = <<>> THEN ""
        ELSE CASE w[1] = "Exam" -> "exam"
               [] w[1] = "Giga" -> "giga"
               [] OTHER         -> w[1]

\* (x.tags || []).join(" ")
JoinTags(tags) ==
    Concat([ i \in 1..Len(tags) |-> IF i = 1 THEN <<tags[i]>> ELSE <<" ", tags[i]>> ])

\* A plausible slip: the search reads the title only.
SearchTextTitleOnly(x) == x.title

\* [x.title, x.source, (x.tags||[]).join(" "), x.tab].join(" ")
SearchText(x) == x.title \o <<" ">> \o x.source \o <<" ">> \o JoinTags(x.tags) \o <<" ", x.tab>>

\* text.toLowerCase().includes(q)
SearchIncludes(text, q) == \E i \in 1..Len(text) : q \in SearchHas(text[i])

\* bm.order.map(id => bm.map[id]).filter(Boolean)
BookmarkList(st) ==
    LET bm   == loadBookmarks(st)
        kept == SelectSeq(bm.order, LAMBDA id : InMap(bm, id))
    IN  [ i \in 1..Len(kept) |-> bm.map[kept[i]] ]

\* A plausible slip: the bookmarks pass through the retention window as well.
BaseListWindowed(tab, its, st, days, now) ==
    IF tab = "BOOKMARKS" THEN SelectSeq(BookmarkList(st), LAMBDA x : withinDays(x, days, now))
    ELSE IF tab = "TODAY" THEN pickToday(its, now)
    ELSE SelectSeq(SelectSeq(its, LAMBDA x : x.tab = tab),
                   LAMBDA x : withinDays(x, days, now))

\* The items of the mode, before tag, search and sort (applyFilters, the three branches).
BaseList(tab, its, st, days, now) ==
    IF tab = "BOOKMARKS" THEN BookmarkList(st)
    ELSE IF tab = "TODAY" THEN pickToday(its, now)
    ELSE SelectSeq(SelectSeq(its, LAMBDA x : x.tab = tab),
                   LAMBDA x : withinDays(x, days, now))

\* applyFilters(): the new value of filtered.  In the X mode the function returns
\* before it assigns, and filtered stays old.
applyFilters(tab, tag, input, days, sort, its, st, now, old) ==
    LET q        == QueryOf(input)
        base     == BaseList(tab, its, st, days, now)
        tagged   == IF tag # "" THEN SelectSeq(base, LAMBDA x : tag \in Range(x.tags))
                    ELSE base
        searched == IF q # "" THEN SelectSeq(tagged, LAMBDA x : SearchIncludes(SearchText(x), q))
                    ELSE tagged
    IN  IF tab = "X" THEN old
        ELSE SortBy(IF sort = "new" THEN "new" ELSE "score-new", searched)

\* counts.get(t): the number of times the tag t stands in the tags of the items of base.
TagCount(base, t) ==
    Cardinality({ p \in UNION { { <<i, j>> : j \in 1..Len(base[i].tags) } : i \in 1..Len(base) } :
                    base[p[1]].tags[p[2]] = t })

RECURSIVE InsertTag(_, _, _)
InsertTag(base, sorted, t) ==
    IF sorted = <<>> THEN <<t>>
    ELSE IF TagCount(base, Head(sorted)) - TagCount(base, t) < 0 THEN <<t>> \o sorted
         ELSE <<Head(sorted)>> \o InsertTag(base, Tail(sorted), t)

RECURSIVE SortTags(_, _)
\* Array.from(counts.entries()).sort((a,b)=> b[1]-a[1]): stable.
SortTags(base, tags) ==
    IF tags = <<>> THEN <<>>
    ELSE InsertTag(base, SortTags(base, Front(tags)), Last(tags))

\* The items renderTags counts the tags of: all items in the TODAY mode, those of the
\* tab otherwise, within 7 days.
TagBase(tab, its, now) ==
    SelectSeq(IF tab # "TODAY" THEN SelectSeq(its, LAMBDA x : x.tab = tab) ELSE its,
              LAMBDA x : withinDays(x, 7, now))

\* renderTags(): the tags of the buttons of the row, in order; none in the BOOKMARKS
\* and X modes.
renderTags(tab, its, now) ==
    IF tab \in { "BOOKMARKS", "X" } THEN <<>>
    ELSE LET base == TagBase(tab, its, now)
             seen == Dedup(Concat([ i \in 1..Len(base) |-> base[i].tags ]))
         IN  Slice0(SortTags(base, seen), TagCap)

\* The records of the artifacts the page loads.
ViewRecord(n) ==
    CASE n = 1 -> Rec(<<"GIGA-school", " ", "jugyo">>, <<"https://example.com", "/", "p1">>,
                      <<>>, Iso(Now - 2500))
      [] n = 2 -> Rec(<<"komu-DX", " ", "gakko">>, <<"https://example.com", "/", "p2">>,
                      <<>>, Iso(Now - 300))
      [] n = 3 -> Rec(<<"joho-I", " ", "hyoka">>, <<"https://example.com", "/", "p3">>,
                      <<>>, Iso(Now - 900))
      [] n = 4 -> Rec(<<"kyotsu-test", " ", "jugyo">>, <<"https://example.com", "/", "p4">>,
                      <<>>, Iso(Now - 5000))
      [] n = 5 -> Rec(<<"shingikai">>, <<"https://www.mext.go.jp", "/", "p3">>,
                      <<"monbukagakusho">>, Iso(Now - 3000))
      [] OTHER -> Rec(<<"GIGA-school", " ", "tanmatsu">>, <<"https://example.com", "/", "p8">>,
                      <<>>, Iso(Now - 1500))

\* data/items.json as the script writes it below the cap: merged, retained and sorted.
ArtifactOf(ns) ==
    SortItems(Retained(MergeAll(1, <<>>, [ i \in 1..Len(ns) |-> ViewRecord(ns[i]) ])))

\* The artifacts tried: three ICT items with two tags, the oldest with the best score,
\* and one item in each of four categories.
Artifacts == { ArtifactOf(<<1, 2, 6>>), ArtifactOf(<<1, 3, 4, 5>>) }

\* What the user types into the search box.
SearchInputs == { <<>>, <<" ", "Exam", " ">>, <<"Giga">> }

\* The options of the retention select and of the sort select.
DaysOptions == { 3, 7 }

SortOptions == { "score", "new" }

RECURSIVE StoreOf(_)
\* The store after the items 1..n were bookmarked one after the other.
StoreOf(n) ==
    IF n = 0 THEN saveBookmarks(EmptyBookmarks)
    ELSE toggleBookmark(StoreOf(n - 1), BookmarkItem(n))

\* The cards whose star the user clicks.
StarIds == { MakeItem(1, ViewRecord(4)).id, BookmarkItem(2).id }

InitView ==
    /\ store \in { AbsentStore, StoreOf(BookmarkCap) }
    /\ lastToggle = NoToggle
    /\ allItems = <<>> /\ filtered = <<>> /\ tagRow = <<>>
    /\ activeTab = "TODAY" /\ activeTag = ""
    /\ searchInput = <<>> /\ daysSelect = 7 /\ sortSelect = "score"
    /\ clock = Now
    /\ renderedAt = [ tagRow |-> Now, filtered |-> Now, store |-> store ]
    /\ scriptRev = 1
    /\ IdleUrl /\ IdleCls /\ IdleAgg /\ IdleRun

\* What applyFilters read, recorded when it assigned filtered.
Rendered(tab, tagsToo) ==
    [ tagRow   |-> IF tagsToo THEN clock ELSE renderedAt.tagRow,
      filtered |-> IF tab = "X" THEN renderedAt.filtered ELSE clock,
      store    |-> IF tab = "X" THEN renderedAt.store ELSE store ]

ViewRest == UNCHANGED <<scriptRev, urlVars, clsVars, aggVars, runVars>>

\* The page fetches data/items.json again and renders.
LoadArtifact ==
    \E a \in Artifacts :
        /\ allItems' = a
        /\ tagRow' = renderTags(activeTab, a, clock)
        /\ filtered' = applyFilters(activeTab, activeTag, searchInput, daysSelect, sortSelect,
                                    a, store, clock, filtered)
        /\ renderedAt' = Rendered(activeTab, TRUE)
        /\ UNCHANGED <<activeTab, activeTag, searchInput, daysSelect, sortSelect, clock,
                       store, lastToggle>>
        /\ ViewRest

\* setTab(tabKey)
SetTab ==
    \E k \in TabKeys :
        /\ activeTab' = k
        /\ activeTag' = ""
        /\ searchInput' = <<>>
        /\ sortSelect' = "score"
        /\ daysSelect' = 7
        /\ tagRow' = renderTags(k, allItems, clock)
        /\ filtered' = applyFilters(k, "", <<>>, 7, "score", allItems, store, clock, filtered)
        /\ renderedAt' = Rendered(k, TRUE)
        /\ UNCHANGED <<allItems, clock, store, lastToggle>>
        /\ ViewRest

\* The click on a tag of the row: activeTag = (activeTag === t ? null : t);
\* renderTags(); applyFilters();
ClickTag ==
    \E i \in 1..Len(tagRow) :
        LET tag == IF activeTag = tagRow[i] THEN "" ELSE tagRow[i]
        IN  /\ activeTag' = tag
            /\ tagRow' = renderTags(activeTab, allItems, clock)
            /\ filtered' = applyFilters(activeTab, tag, searchInput, daysSelect, sortSelect,
                                        allItems, store, clock, filtered)
            /\ renderedAt' = Rendered(activeTab, TRUE)
            /\ UNCHANGED <<allItems, activeTab, searchInput, daysSelect, sortSelect, clock,
                           store, lastToggle>>
            /\ ViewRest

\* The click on the first button of the row: activeTag = null; applyFilters();
ClickAll ==
    /\ tagRow # <<>>
    /\ activeTag' = ""
    /\ filtered' = applyFilters(activeTab, "", searchInput, daysSelect, sortSelect,
                                allItems, store, clock, filtered)
    /\ renderedAt' = Rendered(activeTab, FALSE)
    /\ UNCHANGED <<allItems, activeTab, searchInput, daysSelect, sortSelect, tagRow, clock,
                   store, lastToggle>>
    /\ ViewRest

\* The user changes the search text, and applyFilters reads it.
Search ==
    \E input \in SearchInputs :
        /\ searchInput' = input
        /\ filtered' = applyFilters(activeTab, activeTag, input, daysSelect, sortSelect,
                                    allItems, store, clock, filtered)
        /\ renderedAt' = Rendered(activeTab, FALSE)
        /\ UNCHANGED <<allItems, activeTab, activeTag, daysSelect, sortSelect, tagRow, clock,
                       store, lastToggle>>
        /\ ViewRest

\* The user changes the retention select, which setTab disables in the BOOKMARKS and X
\* modes, and applyFilters reads it.
SelectDays ==
    \E d \in DaysOptions :
        /\ activeTab \notin { "BOOKMARKS", "X" }
        /\ daysSelect' = d
        /\ filtered' = applyFilters(activeTab, activeTag, searchInput, d, sortSelect,
                                    allItems, store, clock, filtered)
        /\ renderedAt' = Rendered(activeTab, FALSE)
        /\ UNCHANGED <<allItems, activeTab, activeTag, searchInput, sortSelect, tagRow, clock,
                       store, lastToggle>>
        /\ ViewRest

\* The user changes the sort select, and applyFilters reads it.
SelectSort ==
    \E m \in SortOptions :
        /\ sortSelect' = m
        /\ filtered' = applyFilters(activeTab, activeTag, searchInput, daysSelect, m,
                                    allItems, store, clock, filtered)
        /\ renderedAt' = Rendered(activeTab, FALSE)
        /\ UNCHANGED <<allItems, activeTab, activeTag, searchInput, daysSelect, tagRow, clock,
                       store, lastToggle>>
        /\ ViewRest

\* The user clicks the star of a displayed card: toggleBookmark(item).
ToggleStar ==
    \E i \in 1..Len(filtered) :
        /\ activeTab # "X"
        /\ filtered[i].id \in StarIds
        /\ store' = toggleBookmark(store, filtered[i])
        /\ lastToggle' =
               IF lastToggle.id = filtered[i].id /\ lastToggle.calls = 1
               THEN [ lastToggle EXCEPT !.calls = 2 ]
               ELSE [ id |-> filtered[i].id, before |-> loadBookmarks(store),
                      wasIn |-> InMap(loadBookmarks(store), filtered[i].id), calls |-> 1 ]
        /\ UNCHANGED viewVars
        /\ ViewRest

\* Days pass.
Tick ==
    /\ clock < Now + MaxTicks * TickUnits
    /\ clock' = clock + TickUnits
    /\ UNCHANGED <<allItems, filtered, activeTab, activeTag, searchInput, daysSelect,
                   sortSelect, tagRow, renderedAt, store, lastToggle>>
    /\ ViewRest

NextView ==
    \/ LoadArtifact
    \/ SetTab
    \/ ClickTag
    \/ ClickAll
    \/ Search
    \/ SelectDays
    \/ SelectSort
    \/ ToggleStar
    \/ Tick

SpecView == InitView /\ [][NextView]_vars

-----------------------------------------------------------------------------
(* Claims about dedupeAndEnrich (SpecAgg).                                  *)

\* The records of rawItems that the loop turns into the Item with URL url.
RecordsOf(url) ==
    { i \in 1..Len(rawItems) : ~Skipped(rawItems[i]) /\ stripTracking(rawItems[i].url) = url }

\* The greatest element of a non-empty set of integers.
MaxOf(S) == CHOOSE m \in S : \A n \in S : n <= m

\* The least element of a non-empty set of integers.
MinOf(S) == CHOOSE m \in S : \A n \in S : m <= n

\* C1: the result of dedupeAndEnrich holds no two items with the same id or the same url,
\* and every item of it has, as tags, the union of the tags classified for the records with
\* its canonical URL and, as score, the greatest of the scores computed for those records.
C1_OnePerUrlUnionMax ==
    aggPc = "done" =>
        /\ \A i, j \in 1..Len(items) :
               i # j => items[i].id # items[j].id /\ items[i].url # items[j].url
        /\ \A i \in 1..Len(items) :
               LET rs == RecordsOf(items[i].url)
               IN  /\ rs # {}
                   /\ Range(items[i].tags) =
                          UNION { Range(assignTabAndTags(scriptRev, Trim(rawItems[k].title),
                                                         stripTracking(rawItems[k].url),
                                                         rawItems[k].source).tags) : k \in rs }
                   /\ items[i].score =
                          MaxOf({ MakeItem(scriptRev, rawItems[k]).score : k \in rs })

\* C1's case: an item of the result made of two records with different tags and scores.
C1_Witness ==
    /\ aggPc = "done"
    /\ \E i \in 1..Len(items) : \E k, l \in RecordsOf(items[i].url) :
           /\ rawItems[k].url # rawItems[l].url
           /\ MakeItem(scriptRev, rawItems[k]).tags # MakeItem(scriptRev, rawItems[l]).tags
           /\ MakeItem(scriptRev, rawItems[k]).score < MakeItem(scriptRev, rawItems[l]).score
           /\ k < l

\* C2: an item merged of several records (all with a parseable date) has the earliest of
\* their publishedAt values.
C2_EarliestPublishedAt ==
    aggPc = "done" =>
        \A i \in 1..Len(mergedItems) :
            LET rs == RecordsOf(mergedItems[i].url)
                ps == { MakeItem(scriptRev, rawItems[k]).publishedAt : k \in rs }
            IN  (Cardinality(rs) >= 2 /\ \A p \in ps : IsDate(p)) =>
                    /\ IsDate(mergedItems[i].publishedAt)
                    /\ mergedItems[i].publishedAt.t = MinOf({ p.t : p \in ps })

\* C3: every item of the result has a parseable publishedAt that is at most 7 days and
\* 0.001 day old; an item 8 days old, or with an unparseable date, is not in the result.
C3_Retention ==
    aggPc = "done" =>
        \A i \in 1..Len(items) :
            /\ IsDate(items[i].publishedAt)
            /\ Now - items[i].publishedAt.t <= DAYS_KEEP * UnitsPerDay + 1

\* C3's case: the merge made an item 8 days old and one with an unparseable date, and the
\* result keeps an item that is exactly 7.001 days old.
C3_Witness ==
    /\ aggPc = "done"
    /\ \E i \in 1..Len(mergedItems) : mergedItems[i].publishedAt = Iso(Now - 8 * UnitsPerDay)
    /\ \E i \in 1..Len(mergedItems) : ~IsDate(mergedItems[i].publishedAt)
    /\ \E i \in 1..Len(items) :
           items[i].publishedAt = Iso(Now - (DAYS_KEEP * UnitsPerDay + 1))

\* C4: in the result, the score never rises from one item to the next, and between two
\* neighbours of equal score the publishedAt never rises.
C4_Ordered ==
    aggPc = "done" =>
        \A i \in 1..(Len(items) - 1) :
            /\ items[i].score >= items[i + 1].score
            /\ items[i].score = items[i + 1].score =>
                   items[i].publishedAt.t >= items[i + 1].publishedAt.t

\* C4's case: two neighbours of equal score and different dates, which the map held in
\* the other order.
C4_Witness ==
    /\ aggPc = "done"
    /\ \E i \in 1..(Len(items) - 1) :
           /\ items[i].score = items[i + 1].score
           /\ items[i].publishedAt.t > items[i + 1].publishedAt.t
           /\ \E k, l \in 1..Len(mergedItems) :
                  k < l /\ mergedItems[k] = items[i + 1] /\ mergedItems[l] = items[i]

\* The items of the map that pass the retention test (7 days and 0.001 day).
KeptItems ==
    { mergedItems[i] : i \in { k \in 1..Len(mergedItems) :
          /\ IsDate(mergedItems[k].publishedAt)
          /\ Now - mergedItems[k].publishedAt.t <= DAYS_KEEP * UnitsPerDay + 1 } }

\* a ranks strictly above b in the default order.
RanksAbove(a, b) ==
    \/ a.score > b.score
    \/ a.score = b.score /\ a.publishedAt.t > b.publishedAt.t

\* C5: with N items left by the merge and the retention test, the result has
\* min(N, cap) items, all among those N, and no item left out ranks strictly above an
\* item of the result.
C5_CapKeepsTop ==
    aggPc = "done" =>
        /\ Len(items) = Min(Cardinality(KeptItems), ItemCap)
        /\ Range(items) \subseteq KeptItems
        /\ \A d \in KeptItems \ Range(items) : \A x \in Range(items) : ~RanksAbove(d, x)

\* C5's case: more items pass the retention test than the cap allows; the first item of
\* the map is left out and an item that arrived later is kept.
C5_Witness ==
    /\ aggPc = "done"
    /\ Cardinality(KeptItems) > ItemCap
    /\ Len(items) = ItemCap
    /\ mergedItems[1] \in KeptItems \ Range(items)

-----------------------------------------------------------------------------
(* Claim about stripTracking (SpecUrl).                                     *)

\* C7: stripTracking is idempotent: applied to its own result, it returns that result.
C7_Idempotent == Len(urlOut) = 2 => urlOut[2] = urlOut[1]

-----------------------------------------------------------------------------
(* SpecClassifyAgg: the classifier on its own and within dedupeAndEnrich.   *)

SpecClassifyAgg == (InitClassify \/ InitAgg) /\ [][NextClassify \/ NextAgg]_vars

\* C6: assignTabAndTags returns one of the six tabs and at least one tag, for every
\* (title, url, source); every item of the result of dedupeAndEnrich has one of the six
\* tabs and at least one tag, merged or not.
C6_ClassifierTotal ==
    /\ clsOut # NoResult => clsOut.tab \in TabValues /\ clsOut.tags # <<>>
    /\ aggPc = "done" =>
           \A i \in 1..Len(items) : items[i].tab \in TabValues /\ items[i].tags # <<>>

\* C6's case: a triple that no keyword rule gives a tag (the tag is the fallback of the
\* ICT rule), classified.
C6_Witness ==
    /\ clsIn.title = <<"joho-I">> /\ clsIn.source = <<"ICT-kyoiku-news">>
    /\ clsOut = [ tab |-> TAB.ICT, tags |-> <<"ICT-kyoiku">> ]

-----------------------------------------------------------------------------
(* Claims about a run (Spec, SpecFair).                                     *)

\* The records that the sources attempted so far were to contribute: those of the body of
\* every source that answered, none for a source that failed.
ExpectedCollected ==
    Concat([ i \in 1..Len(outcome) |->
               IF outcome[i].ok THEN Pushed(Sources[i], outcome[i].body) ELSE <<>> ])

\* C8: a failed source adds no record and takes none away, every record of a source that
\* answered is in the list; only the file system makes the run exit with 1; the run
\* aggregates after every source was attempted and ends with the artifact written.
C8_FailuresIsolated ==
    /\ collected = ExpectedCollected
    /\ exitCode = 1 => pc \in {"failed-mkdir", "failed-write"}
    /\ pc \in {"write", "done", "failed-write"} => Len(outcome) = NumSources
    /\ pc = "done" =>
           /\ exitCode = 0
           /\ artifact = [ written |-> TRUE, items |-> dedupeAndEnrich(scriptRev, collected) ]

\* C8's case: a run that ended with the artifact written although one source answered
\* with a non-2xx status or an error, with the records of a source that answered.
C8_Witness ==
    /\ pc = "done" /\ exitCode = 0
    /\ \E i \in 1..Len(outcome) : ~outcome[i].ok
    /\ \E i \in 1..Len(outcome) : outcome[i].ok /\ outcome[i].body # <<>>
    /\ artifact.written /\ artifact.items # <<>>

\* C9: every fetch that is pending ends (with an answer, or aborted at the timeout), and
\* so every run ends.
C9_EveryFetchEnds ==
    /\ (net = "pending") ~> (net # "pending")
    /\ <>(exitCode # -1)

-----------------------------------------------------------------------------
(* Claims about the bookmark store (SpecBookmarks).                         *)

\* C10 as stated: after toggleBookmark(item) twice in a row for an item that was not
\* bookmarked, loadBookmarks returns the order and the map it returned before, whatever the
\* number of bookmarks was.
C10_RoundTripAnyStore ==
    (lastToggle.id # <<>> /\ lastToggle.calls = 2 /\ ~lastToggle.wasIn) =>
        loadBookmarks(store) = lastToggle.before

\* C10 as amended: the same, for a store that held fewer bookmarks than the soft cap.
C10_RoundTripBelowCap ==
    (/\ lastToggle.id # <<>> /\ lastToggle.calls = 2 /\ ~lastToggle.wasIn
     /\ Len(lastToggle.before.order) < BookmarkCap) =>
        /\ loadBookmarks(store) = lastToggle.before
        /\ ~InMap(loadBookmarks(store), lastToggle.id)
        /\ lastToggle.id \notin Range(loadBookmarks(store).order)

\* C10's case: two calls in a row for an item that was not bookmarked, on a store that
\* held one bookmark fewer than the cap.
C10_Witness ==
    /\ lastToggle.id # <<>> /\ lastToggle.calls = 2 /\ ~lastToggle.wasIn
    /\ Len(lastToggle.before.order) = BookmarkCap - 1
    /\ loadBookmarks(store) = lastToggle.before

\* C11: the persisted bookmark state, as loadBookmarks reads it, has in its order list
\* exactly the keys of its snapshot map, and no identity twice in the order list.
C11_OrderMatchesMap ==
    LET bm == loadBookmarks(store)
    IN  /\ Range(bm.order) = DOMAIN bm.map
        /\ \A i, j \in 1..Len(bm.order) : i # j => bm.order[i] # bm.order[j]

\* C11's case: a bookmark was just added to a full store (the oldest was evicted), so
\* additions, and the deletion of snapshots, have acted on the store.
C11_Witness ==
    /\ lastToggle.calls = 1 /\ ~lastToggle.wasIn
    /\ Len(lastToggle.before.order) = BookmarkCap
    /\ Len(loadBookmarks(store).order) = BookmarkCap
    /\ Last(lastToggle.before.order) \notin DOMAIN loadBookmarks(store).map

\* C18: the store never holds more than the cap; right after a bookmark was added, the
\* order list is the new identity followed by the former order, cut at the cap (so only
\* identities at the tail are gone), the new identity is at the head, and the snapshots
\* are those of the former map for the identities kept, with the snapshot of the new one.
C18_SoftCap ==
    LET bm == loadBookmarks(store)
    IN  /\ Len(bm.order) <= BookmarkCap
        /\ Cardinality(DOMAIN bm.map) <= BookmarkCap
        /\ (lastToggle.id # <<>> /\ lastToggle.calls = 1 /\ ~lastToggle.wasIn) =>
               LET full == <<lastToggle.id>> \o lastToggle.before.order
               IN  /\ bm.order = SubSeq(full, 1, Min(BookmarkCap, Len(full)))
                   /\ bm.order[1] = lastToggle.id
                   /\ DOMAIN bm.map = Range(bm.order)
                   /\ \A id \in DOMAIN bm.map :
                          id # lastToggle.id => bm.map[id] = lastToggle.before.map[id]
                   /\ bm.map[lastToggle.id].id = lastToggle.id

\* C18's case: an addition to a store that held the cap: one identity, the oldest, left.
C18_Witness ==
    /\ lastToggle.id # <<>> /\ lastToggle.calls = 1 /\ ~lastToggle.wasIn
    /\ Len(lastToggle.before.order) = BookmarkCap
    /\ loadBookmarks(store).order =
           <<lastToggle.id>> \o Front(lastToggle.before.order)

-----------------------------------------------------------------------------
(* Further claims about computeScore and dedupeAndEnrich (SpecAgg).         *)

\* Ages (in units of 1/1000 day) in ascending order, on both sides of every tier of the
\* recency bonus, with a date in the future.
ScoreAges == << -500, 0, UnitsPerDay, UnitsPerDay + 1, 3 * UnitsPerDay, 3 * UnitsPerDay + 1,
               7 * UnitsPerDay, 7 * UnitsPerDay + 1, 9 * UnitsPerDay >>

\* The item of record r scored again as published a units ago: computeScore reads the
\* item's title, tab and publishedAt, and the tab does not depend on publishedAt.
ScoreAtAge(item, a) == computeScore(scriptRev, [ item EXCEPT !.publishedAt = Iso(Now - a) ])

\* C13: the score computed for every record is a natural number; the category weights
\* are strictly ordered ICT > INFO1 > AI_LATEST > AI_EDU > MEXT > EXAM > 0; the recency
\* bonus is 6 within 1 day, 4 within 3 days, 2 within 7 days and 0 beyond (and for an
\* unparseable date); of two items that differ in age only, the older never scores higher.
C13_ScoreShape ==
    aggPc = "done" =>
        /\ \A i \in 1..Len(mergedItems) : mergedItems[i].score \in Nat
        /\ TabBoost(TAB.ICT) > TabBoost(TAB.INFO1)
        /\ TabBoost(TAB.INFO1) > TabBoost(TAB.AI_LATEST)
        /\ TabBoost(TAB.AI_LATEST) > TabBoost(TAB.AI_EDU)
        /\ TabBoost(TAB.AI_EDU) > TabBoost(TAB.MEXT)
        /\ TabBoost(TAB.MEXT) > TabBoost(TAB.EXAM)
        /\ TabBoost(TAB.EXAM) > 0
        /\ \A a \in Range(ScoreAges) :
               RecencyBoost(Iso(Now - a)) =
                   IF a <= UnitsPerDay THEN 6
                   ELSE IF a <= 3 * UnitsPerDay THEN 4
                   ELSE IF a <= 7 * UnitsPerDay THEN 2 ELSE 0
        /\ RecencyBoost(BadDate) = 0
        /\ \A i \in 1..Len(rawItems) :
               ~Skipped(rawItems[i]) =>
                   LET item == MakeItem(scriptRev, rawItems[i])
                   IN  /\ item.score \in Nat
                       /\ \A k \in 1..(Len(ScoreAges) - 1) :
                              /\ ScoreAges[k] < ScoreAges[k + 1]
                              /\ ScoreAtAge(item, ScoreAges[k + 1]) \in Nat
                              /\ ScoreAtAge(item, ScoreAges[k])
                                     >= ScoreAtAge(item, ScoreAges[k + 1])

\* C13's case: scored items of two categories, one with the full recency bonus and one
\* with none, the fresher one scoring higher than it would at the age of the other.
C13_Witness ==
    /\ aggPc = "done"
    /\ \E i, j \in 1..Len(rawItems) :
           /\ ~Skipped(rawItems[i]) /\ ~Skipped(rawItems[j])
           /\ MakeItem(scriptRev, rawItems[i]).tab # MakeItem(scriptRev, rawItems[j]).tab
           /\ RecencyBoost(rawItems[i].publishedAt) = 6
           /\ RecencyBoost(rawItems[j].publishedAt) = 0
           /\ IsDate(rawItems[j].publishedAt)
           /\ MakeItem(scriptRev, rawItems[i]).score
                  = ScoreAtAge(MakeItem(scriptRev, rawItems[i]),
                               Now - rawItems[j].publishedAt.t) + 6

\* C17: every item of the map after the loop has the id, url, source and tab of the first
\* record with its canonical URL, and as title the title of the first of those records
\* whose title is as long as the longest.
C17_FirstSeenFields ==
    aggPc = "done" =>
        \A i \in 1..Len(mergedItems) :
            LET m     == mergedItems[i]
                rs    == RecordsOf(m.url)
                first == MakeItem(scriptRev, rawItems[MinOf(rs)])
                len   == MaxOf({ StrLen(Trim(rawItems[k].title)) : k \in rs })
                long  == MinOf({ k \in rs : StrLen(Trim(rawItems[k].title)) = len })
            IN  /\ m.id = first.id /\ m.url = first.url
                /\ m.source = first.source /\ m.tab = first.tab
                /\ m.title = Trim(rawItems[long].title)

\* C17's case: an item merged of a record, then a record with another source, another
\* tab and a longer title, and an item merged of two records with different titles of the
\* same length.
C17_Witness ==
    /\ aggPc = "done"
    /\ \E i \in 1..Len(mergedItems) : \E k, l \in RecordsOf(mergedItems[i].url) :
           /\ k < l /\ k = MinOf(RecordsOf(mergedItems[i].url))
           /\ MakeItem(scriptRev, rawItems[k]).source # MakeItem(scriptRev, rawItems[l]).source
           /\ MakeItem(scriptRev, rawItems[k]).tab # MakeItem(scriptRev, rawItems[l]).tab
           /\ StrLen(Trim(rawItems[l].title)) > StrLen(Trim(rawItems[k].title))
           /\ mergedItems[i].title = Trim(rawItems[l].title)
    /\ \E i \in 1..Len(mergedItems) : \E k, l \in RecordsOf(mergedItems[i].url) :
           /\ k < l
           /\ Trim(rawItems[k].title) # Trim(rawItems[l].title)
           /\ StrLen(Trim(rawItems[k].title)) = StrLen(Trim(rawItems[l].title))
           /\ mergedItems[i].title = Trim(rawItems[k].title)

-----------------------------------------------------------------------------
(* Claim about the order of the classifier's rules (SpecClassify).          *)

\* The URL or the source names the regulator (MEXT) or the known outlet (ITmedia).
RegulatorOrOutlet(url, source) ==
    \/ Includes(url, "mext.go.jp") \/ IncludesLower(source, "monbukagakusho")
    \/ Includes(url, "itmedia.co.jp") \/ IncludesLower(source, "itmedia")

\* C16 as stated: for a record of neither the regulator nor the outlet, the result is
\* EXAM with the one exam tag exactly when the title or the URL holds an exam keyword
\* (so a title with an exam and an ICT keyword is EXAM), and the title
\* "GIGA-school tanmatsu koshin he" with source "dash" is ICT with the tag GIGA.
C16_ExamByTitleOrUrl ==
    (clsOut # NoResult /\ ~RegulatorOrOutlet(clsIn.url, clsIn.source)) =>
        /\ (clsOut = [ tab |-> TAB.EXAM, tags |-> <<"kyotsu-test">> ])
               <=> isExam(clsIn.title \o <<" ">> \o clsIn.url)
        /\ clsOut.tab = TAB.EXAM => clsOut.tags = <<"kyotsu-test">>
        /\ (clsIn.title = TitleGiga /\ clsIn.source = <<"dash">>) =>
               clsOut = [ tab |-> TAB.ICT, tags |-> <<"GIGA">> ]

-----------------------------------------------------------------------------
(* Claim about the order of a run (Spec).                                   *)

\* Aggregation has started: dedupeAndEnrich was called.
Aggregating == pc \in {"write", "done", "failed-write"}

\* C15: when aggregation has started, every source was attempted and its attempt has
\* ended, no fetch is in flight, and the artifact holds dedupeAndEnrich of the list
\* accumulated; before that nothing is written; once aggregation has started the
\* accumulated list does not change; a written artifact is not written again.
C15_AggregateAfterAllSources ==
    /\ [](Aggregating =>
             /\ Len(outcome) = NumSources /\ srcIdx = NumSources + 1 /\ net = "idle"
             /\ artifact.items = dedupeAndEnrich(scriptRev, collected))
    /\ [](artifact.written => pc = "done")
    /\ [](~Aggregating => artifact = NoArtifact)
    /\ [][Aggregating => (collected' = collected /\ outcome' = outcome /\ Aggregating')]_vars
    /\ [][artifact.written => artifact' = artifact]_vars
    /\ [][artifact'.written /\ ~artifact.written => pc = "write"]_vars

\* C15's case: a run that ended with the artifact written, in which every source
\* answered with records.
C15_Witness ==
    /\ pc = "done" /\ artifact.written /\ exitCode = 0
    /\ Len(outcome) = NumSources
    /\ \A i \in 1..Len(outcome) : outcome[i].ok /\ outcome[i].body # <<>>
    /\ Len(collected) >= NumSources

-----------------------------------------------------------------------------
(* Claims about the view-model (SpecView).                                  *)

\* No tag is active and the search text is empty after trimming.
Unfiltered == activeTag = "" /\ QueryOf(searchInput) = ""

\* C12: the digest that pickToday returns holds at least one item of every digest
\* category that has an item within the 7-day window, however high the scores of the
\* other categories: in the TODAY mode with no tag and no search, every bucket with an
\* item of allItems within 7 days of the rendering has an item in the displayed list.
C12_EveryCategoryInDigest ==
    (activeTab = "TODAY" /\ Unfiltered) =>
        \A i \in 1..Len(buckets) :
            (\E j \in 1..Len(allItems) :
                 /\ allItems[j].tab = buckets[i]
                 /\ withinDays(allItems[j], 7, renderedAt.filtered))
            => \E j \in 1..Len(filtered) : filtered[j].tab = buckets[i]

\* The base list of the current mode as it was when renderTags last ran.
BaseAtTags == BaseList(activeTab, allItems, renderedAt.store, daysSelect, renderedAt.tagRow)

\* C20: the tags that renderTags offers are computed from the base list of the current
\* mode (the digest in the TODAY mode, the items of the category within the selected
\* retention days in a category mode): every offered tag stands in an item of that base
\* list, the more frequent tags of the base list come first, at most TagCap tags are
\* offered, and an offered tag that is selected with an empty search text never leaves
\* the displayed list empty.
C20_TagsFromBaseList ==
    /\ Len(tagRow) <= TagCap
    /\ activeTab \notin { "BOOKMARKS", "X" } =>
           /\ \A i \in 1..Len(tagRow) :
                  \E j \in 1..Len(BaseAtTags) : tagRow[i] \in Range(BaseAtTags[j].tags)
           /\ \A i \in 1..(Len(tagRow) - 1) :
                  TagCount(BaseAtTags, tagRow[i]) >= TagCount(BaseAtTags, tagRow[i + 1])
    /\ ( /\ activeTab \notin { "BOOKMARKS", "X" }
         /\ activeTag \in Range(tagRow)
         /\ QueryOf(searchInput) = ""
         /\ renderedAt.tagRow = renderedAt.filtered )
       => filtered # <<>>

\* The displayed item x passes the tag and search stages: it holds the active tag when
\* there is one, and its title, source, tags or tab hold the search text, lower-cased,
\* when there is one.
PassesTagAndSearch(x) ==
    /\ activeTag # "" => \E i \in 1..Len(x.tags) : x.tags[i] = activeTag
    /\ QueryOf(searchInput) # "" =>
           \E tok \in Range(x.title) \cup Range(x.source) \cup Range(x.tags) \cup { x.tab } :
               QueryOf(searchInput) \in SearchHas(tok)

\* The items that the current mode starts from, as a set: in a category mode the items
\* of the artifact of that tab not older than the selected days when applyFilters ran.
ModeItems ==
    IF activeTab \in { "TODAY", "BOOKMARKS" }
    THEN Range(BaseList(activeTab, allItems, renderedAt.store, daysSelect, renderedAt.filtered))
    ELSE { x \in Range(allItems) :
               /\ x.tab = activeTab
               /\ IsDate(x.publishedAt)
               /\ renderedAt.filtered - x.publishedAt.t <= daysSelect * UnitsPerDay + 1 }

\* filtered is in the order of the sort mode.
InSortOrder ==
    \A i, j \in 1..Len(filtered) :
        i < j =>
            IF sortSelect = "new" THEN TimeOf(filtered[i]) >= TimeOf(filtered[j])
            ELSE \/ filtered[i].score > filtered[j].score
                 \/ /\ filtered[i].score = filtered[j].score
                    /\ TimeOf(filtered[i]) >= TimeOf(filtered[j])

\* C19: after applyFilters the displayed list is exactly the items of the mode (in a
\* category mode the items of the artifact of that tab within the selected retention
\* days, in the bookmarks and digest modes the base list of the mode) that hold the
\* active tag and the search text, each once, newest first when the sort mode is "new"
\* and best score first with ties by time otherwise.
C19_DisplayedList ==
    activeTab # "X" =>
        /\ Range(filtered) = { x \in ModeItems : PassesTagAndSearch(x) }
        /\ Len(filtered) = Cardinality(Range(filtered))
        /\ InSortOrder

\* A category mode with a tag and a search text that an item of the tab fails, and two
\* displayed items that the sort mode "new" puts against their scores.
C19_Witness ==
    /\ activeTab = "ICT" /\ activeTag = "GIGA" /\ QueryOf(searchInput) = "giga"
    /\ sortSelect = "new"
    /\ Len(filtered) = 2 /\ filtered[1].score < filtered[2].score
    /\ \E j \in 1..Len(allItems) :
           allItems[j].tab = "ICT" /\ ~PassesTagAndSearch(allItems[j])

\* The step takes no identity out of the bookmark store, unless it is a call of
\* toggleBookmark for that identity, or a call that bookmarks another item while the
\* store holds BookmarkCap identities, of which the identity is the oldest.
LeavesByToggleOrEviction ==
    \A id \in Range(loadBookmarks(store).order) :
        id \notin Range(loadBookmarks(store').order) =>
            /\ lastToggle' # lastToggle
            /\ \/ lastToggle'.id = id
               \/ /\ lastToggle'.calls = 1 /\ ~lastToggle'.wasIn
                  /\ Len(loadBookmarks(store).order) = BookmarkCap
                  /\ id = Last(loadBookmarks(store).order)

\* The BOOKMARKS mode with no tag and no search shows the snapshot of every identity of
\* the store that applyFilters read, and nothing else.
ListsEverySnapshot ==
    (activeTab = "BOOKMARKS" /\ Unfiltered) =>
        LET bm == loadBookmarks(renderedAt.store)
        IN  /\ Len(filtered) = Len(bm.order)
            /\ \A i \in 1..Len(bm.order) :
                   \E j \in 1..Len(filtered) : filtered[j] = bm.map[bm.order[i]]

\* C14 (as stated): the BOOKMARKS view lists every stored snapshot in order: with no tag
\* and no search the displayed list is the snapshots in the order of the bookmark store.
C14_ListedInStoreOrder ==
    (activeTab = "BOOKMARKS" /\ Unfiltered) =>
        LET bm == loadBookmarks(renderedAt.store)
        IN  filtered = [ i \in 1..Len(bm.order) |-> bm.map[bm.order[i]] ]

\* C14 (amended): across artifact reloads, the passage of time and user actions a
\* bookmarked identity leaves the store only through toggleBookmark on it or through
\* the eviction of the soft cap, and the BOOKMARKS view shows every stored snapshot,
\* whatever its age and whether or not the artifact holds the item, in the order of the
\* sort mode.
C14_BookmarksOutliveArtifact ==
    /\ [][LeavesByToggleOrEviction]_vars
    /\ [](ListsEverySnapshot /\ (activeTab = "BOOKMARKS" => InSortOrder))

\* After an eviction, a reload and the passage of days the BOOKMARKS view shows all
\* BookmarkCap snapshots, one of them older than 7 days and absent from the artifact, in
\* an order that is not that of the store.
C14_Witness ==
    /\ activeTab = "BOOKMARKS" /\ Unfiltered /\ allItems # <<>>
    /\ renderedAt.store = store /\ Len(filtered) = BookmarkCap
    /\ lastToggle.calls = 1 /\ ~lastToggle.wasIn
    /\ Len(lastToggle.before.order) = BookmarkCap
    /\ filtered[1].id # loadBookmarks(store).order[1]
    /\ \E i \in 1..Len(filtered) :
           /\ ~withinDays(filtered[i], 7, renderedAt.filtered)
           /\ \A j \in 1..Len(allItems) : allItems[j].id # filtered[i].id

-----------------------------------------------------------------------------
(* The tags of an item against its tab (SpecAgg, SpecClassify).             *)

\* The tags that assignTabAndTags can return together with the tab, in either revision
\* of the script: those pushed by the rule that returns the tab, its fallback tag, and
\* for ICT the tag of the last return.
TagsOfTab(tab) ==
    CASE tab = TAB.MEXT      -> { "tsuchi/jimurenraku", "shingikai", "kaigi-shiryo", "monkasho" }
      [] tab = TAB.EXAM      -> { "kyotsu-test" }
      [] tab = TAB.ICT       -> { "GIGA", "komuDX", "LMS", "BYOD", "network-seibi",
                                  "kyoikuiinkai-jichitai", "ICT-kyoiku", "kyoiku-news",
                                  "ITmedia", "ENTERPRISE", "NEWS", "security", "DX",
                                  "joho-moral", "hoseido" }
      [] tab = TAB.INFO1     -> { "programming", "data-katsuyo", "joho-design", "network",
                                  "security(jugyo)", "tankyu-PBL", "hyoka", "joho-1" }
      [] tab = TAB.AI_EDU    -> { "katsuyo-jirei", "komu", "guideline", "kenshu", "chosakuken",
                                  "kojinjoho", "seiseiAI(kyoiku)", "ITmedia", "AI+" }
      [] tab = TAB.AI_LATEST -> { "shinkino", "shinmodel", "AI-tool", "workflow",
                                  "seiseiAI(saishin)", "ITmedia", "AI+" }
      [] OTHER               -> {}

\* C21: every tag of every item of the artifact is a tag that the classifier can emit
\* for the tab of the item: after the merges of dedupeAndEnrich no item carries a tag
\* that belongs only to another category than its tab.
C21_TagsOfOwnTab ==
    aggPc = "done" =>
        \A i \in 1..Len(items) : Range(items[i].tags) \subseteq TagsOfTab(items[i].tab)

====
